---- MODULE Spec2Model ----
(***************************************************************************)
(* Verification model of the qm customer cleanup worker                    *)
(* (crates/customer/src/worker.rs) with the identifier and Owner types it  *)
(* reads (crates/entity/src/ids.rs, crates/customer/src/model/user.rs),    *)
(* and of the Keycloak admin token supplier                                *)
(* (crates/keycloak/src/client.rs).                                        *)
(*                                                                         *)
(* An ObjectId is a positive integer; an absent Option<ID> field is None.  *)
(* A document is a record of its id fields; a role name is the access      *)
(* level with the chain of ids that the Display impl concatenates.         *)
(***************************************************************************)
EXTENDS Naturals, Integers, Sequences, FiniteSets, TLC

\* ------------------------------------------------------------------ bounds
MaxCid == 2
MaxOid == 2
MaxIid == 1
MaxUid == 1
MaxTaskIds == 2
MaxAborts == 1
MaxReadErrors == 1
MaxRefreshes == 2
MaxGets == 2
MaxCalls == 2
MaxMembers == 2
MaxErrors == 2

\* mutation.rs: DEFAULT_TYPE, NAME_MAX_LEN, TY_MAX_LEN
DEFAULT_TYPE == "none"
NAME_MAX_LEN == 1024
TY_MAX_LEN == 16

None == 0

Cids == 1..MaxCid
Oids == 1..MaxOid
Iids == 1..MaxIid
Uids == 1..MaxUid

Workers == {"w1", "w2"}

\* ------------------------------------------------------------ identifiers
\* EntityId { id, cid, oid, iid }, every field optional.
EntityId(id, cid, oid, iid) == [id |-> id, cid |-> cid, oid |-> oid, iid |-> iid]

\* EntityId::as_organization_id : cid.zip(id)
as_organization_id(e) ==
    IF e.cid # None /\ e.id # None THEN <<e.cid, e.id>> ELSE <<>>

\* EntityId::as_organization_unit_id : the variant follows the presence of oid
as_organization_unit_id(e) ==
    IF e.oid # None
    THEN IF e.cid # None /\ e.id # None THEN <<e.cid, e.oid, e.id>> ELSE <<>>
    ELSE IF e.cid # None /\ e.id # None THEN <<e.cid, e.id>> ELSE <<>>

\* EntityId::as_institution_id : cid.zip(oid.zip(id))
as_institution_id(e) ==
    IF e.cid # None /\ e.oid # None /\ e.id # None
    THEN <<e.cid, e.oid, e.id>> ELSE <<>>

\* The ids a task carries, one record shape for the four strict id types:
\* StrictCustomerId {cid}, StrictOrganizationId {cid, oid},
\* StrictInstitutionId {cid, oid, iid}, StrictOrganizationUnitId {cid, oid?, uid}.
StrictId(cid, oid, iid, uid) == [cid |-> cid, oid |-> oid, iid |-> iid, uid |-> uid]

\* Display of the strict ids: the hex of the fields, ancestors first.
StrictChain(ty, v) ==
    CASE ty = "Customers" -> <<v.cid>>
      [] ty = "Organizations" -> <<v.cid, v.oid>>
      [] ty = "Institutions" -> <<v.cid, v.oid, v.iid>>
      [] ty = "OrganizationUnits" ->
            IF v.oid # None THEN <<v.cid, v.oid, v.uid>> ELSE <<v.cid, v.uid>>
      [] OTHER -> <<>>

\* qm_role::Access::new(level).with_fmt_id(id).to_string()
Access(level, chain) == [level |-> level, chain |-> chain]

\* select_ids::<T, F>(ids): the field F of every id, in order.
select_ids(ids, f) == [i \in 1..Len(ids) |-> ids[i][f]]

Range(s) == {s[i] : i \in 1..Len(s)}

\* ---------------------------------------------------------------- queries
\* A filter document is a set of clauses on id fields.  "in" is {f: {$in: arr}};
\* "eq" is {f: arr}, the equality match against an array operand.
Clause(field, op, arr) == [field |-> field, op |-> op, arr |-> arr]

\* A field of the documents is a single ObjectId or absent.  $in matches a
\* present field whose value is in the array; equality with an array operand
\* matches only an array-valued field, which no id field is.
ClauseMatches(v, cl) ==
    IF cl.op = "in" THEN v # None /\ v \in Range(cl.arr) ELSE FALSE

Matches(fields, query) == \A cl \in query : ClauseMatches(fields[cl.field], cl)

\* A slip of the Organizations query: the oid clause left out.
TaskQuery_cidOnly(task) ==
    IF task.ty = "None" THEN {}
    ELSE {Clause("cid", "in", select_ids(task.ids, "cid"))}

\* The query each cleanup function builds from the ids of its task.
TaskQuery(task) ==
    CASE task.ty = "Customers" ->
            {Clause("cid", "in", select_ids(task.ids, "cid"))}
      [] task.ty = "Organizations" ->
            {Clause("cid", "in", select_ids(task.ids, "cid")),
             Clause("oid", "in", select_ids(task.ids, "oid"))}
      [] task.ty = "Institutions" ->
            {Clause("cid", "in", select_ids(task.ids, "cid")),
             Clause("oid", "in", select_ids(task.ids, "oid")),
             Clause("iid", "in", select_ids(task.ids, "iid"))}
      [] task.ty = "OrganizationUnits" ->
            {Clause("cid", "eq", select_ids(task.ids, "cid")),
             Clause("oid", "eq", select_ids(task.ids, "uid"))}
      [] OTHER -> {}

\* -------------------------------------------------------------- documents
\* A document of the customers, organizations, institutions and
\* organization_units collections: its flattened EntityId and, for an
\* Organization Unit, its members (MemberId {cid, oid, iid}).
Doc(id, cid, oid, members) ==
    [id |-> id, cid |-> cid, oid |-> oid, iid |-> None, members |-> members]

MemberId(cid, oid, iid) == [cid |-> cid, oid |-> oid, iid |-> iid]

OwnerLevels == {"Customer", "Organization", "Institution", "OrganizationUnit"}

\* A user document: its Owner, serialised as {ty, entityId}.
User(ty, e) == [owner |-> [ty |-> ty, entityId |-> e]]

CollectionNames ==
    <<"customers", "organizations", "institutions", "organization_units", "users">>

\* The populated hierarchy every behaviour starts from: every customer has
\* every organization, every organization every institution; a customer and
\* an organization each own MaxUid units whose members are the institutions
\* below the owner; there is a user for every Owner level and id chain.
WorldStore ==
    [customers |-> {Doc(c, None, None, {}) : c \in Cids},
     organizations |-> {Doc(o, c, None, {}) : c \in Cids, o \in Oids},
     institutions |-> {Doc(i, c, o, {}) : c \in Cids, o \in Oids, i \in Iids},
     organization_units |->
        {Doc(u, c, None, {MemberId(c, o, i) : o \in Oids, i \in Iids}) :
            c \in Cids, u \in Uids}
        \cup {Doc(u, c, o, {MemberId(c, o, i) : i \in Iids}) :
                c \in Cids, o \in Oids, u \in Uids},
     users |-> {User(ty, EntityId(None, c, o, i)) :
                    ty \in OwnerLevels, c \in 0..MaxCid, o \in 0..MaxOid,
                    i \in 0..MaxIid}]

\* The access-control store holds one role per node of the hierarchy.
WorldRoles ==
    {Access("customer", <<c>>) : c \in Cids}
    \cup {Access("organization", <<c, o>>) : c \in Cids, o \in Oids}
    \cup {Access("institution", <<c, o, i>>) : c \in Cids, o \in Oids, i \in Iids}
    \cup {Access("organization_unit", <<c, u>>) : c \in Cids, u \in Uids}
    \cup {Access("organization_unit", <<c, o, u>>) :
            c \in Cids, o \in Oids, u \in Uids}

\* ------------------------------------------------------------------ tasks
IdKey(v) == ((v.cid * 10 + v.oid) * 10 + v.iid) * 10 + v.uid

TaskIdsOf(ty) ==
    CASE ty = "Customers" -> {StrictId(c, None, None, None) : c \in Cids}
      [] ty = "Organizations" ->
            {StrictId(c, o, None, None) : c \in Cids, o \in Oids}
      [] ty = "Institutions" ->
            {StrictId(c, o, i, None) : c \in Cids, o \in Oids, i \in Iids}
      [] ty = "OrganizationUnits" ->
            {StrictId(c, o, None, u) : c \in Cids, o \in 0..MaxOid, u \in Uids}
      [] OTHER -> {}

\* The id lists of a task type: up to MaxTaskIds distinct ids, in key order.
IdLists(ty) ==
    {s \in UNION {[1..n -> TaskIdsOf(ty)] : n \in 1..MaxTaskIds} :
        \A i \in 1..Len(s), j \in 1..Len(s) : i < j => IdKey(s[i]) < IdKey(s[j])}

TaskTypes == {"Customers", "Organizations", "Institutions", "OrganizationUnits"}

\* CleanupTaskType: Customers(ids) | Organizations(ids) | Institutions(ids)
\*                | OrganizationUnits(ids) | None
Tasks ==
    {[ty |-> ty, ids |-> ids] : ty \in {"None"}, ids \in {<<>>}}
    \cup UNION {{[ty |-> ty, ids |-> ids] : ids \in IdLists(ty)} : ty \in TaskTypes}

\* --------------------------------------------------------- store operations
\* update_organization_units: update_many with filter
\* {members.cid: cid, members.oid: oid} and $pull of {cid, oid, iid}.
update_organization_units(ous, v) ==
    {IF (\E m \in d.members : m.cid = v.cid) /\ (\E m \in d.members : m.oid = v.oid)
     THEN [d EXCEPT !.members =
              {m \in @ : ~(m.cid = v.cid /\ m.oid = v.oid /\ m.iid = v.iid)}]
     ELSE d : d \in ous}

\* A slip of remove_documents: delete_one in place of delete_many.
remove_documents_one(docs, query) ==
    IF \E d \in docs : Matches(d, query)
    THEN docs \ {CHOOSE d \in docs : Matches(d, query)}
    ELSE docs

\* remove_documents: delete_many(query) on one collection.
remove_documents(docs, query) == {d \in docs : ~Matches(d, query)}

\* A slip of remove_users: the query keys are not prefixed, so they name
\* top-level fields, which a user document does not have.
remove_users_unprefixed(users, query) ==
    {u \in users : ~Matches([cid |-> None, oid |-> None, iid |-> None], query)}

\* remove_users: the query keys prefixed with "owner.entityId.".
remove_users(users, query) == {u \in users : ~Matches(u.owner.entityId, query)}

\* One turn of the sweep loop over list_collection_names.
SweepCollection(st, name, query) ==
    IF name = "users"
    THEN [st EXCEPT !.users = remove_users(@, query)]
    ELSE [st EXCEPT ![name] = remove_documents(@, query)]

\* The seed of the role set: one Access per id of the task, at its level.
TaskLevel(ty) ==
    CASE ty = "Customers" -> "customer"
      [] ty = "Organizations" -> "organization"
      [] ty = "Institutions" -> "institution"
      [] ty = "OrganizationUnits" -> "organization_unit"
      [] OTHER -> "none"

SeedRole(ty, v) == Access(TaskLevel(ty), StrictChain(ty, v))

\* The closure extend_roles applies to a document it has read.
RoleOfDoc(level, d) ==
    CASE level = "organization_unit" ->
            Access(level, as_organization_unit_id(EntityId(d.id, d.cid, d.oid, d.iid)))
      [] level = "organization" ->
            Access(level, as_organization_id(EntityId(d.id, d.cid, d.oid, d.iid)))
      [] OTHER ->
            Access(level, as_institution_id(EntityId(d.id, d.cid, d.oid, d.iid)))

\* extend_roles: the documents matching the query, each read as Ok or Err;
\* an Err item is skipped by `if let Ok(v) = v`, an Ok item adds its role.
extend_roles(docs, rs, query, level, failed) ==
    rs \cup {RoleOfDoc(level, d) : d \in {x \in docs : Matches(x, query)} \ failed}

\* Institution -> StrictInstitutionId (filter_map over try_into)
InstitutionIdsOf(docs, query) ==
    {StrictId(d.cid, d.oid, d.id, None) :
        d \in {x \in docs : Matches(x, query) /\ x.cid # None /\ x.oid # None}}

RECURSIVE SortedSeq(_)
SortedSeq(S) ==
    IF S = {} THEN <<>>
    ELSE LET m == CHOOSE x \in S : \A y \in S : IdKey(x) <= IdKey(y)
         IN <<m>> \o SortedSeq(S \ {m})

\* cleanup_roles: every role of the set is deleted from the access-control
\* store; deleting a role that is already absent changes nothing.
cleanup_roles(kc, rs) == kc \ rs

\* ------------------------------------------------------------------- state
VARIABLES
    store,      \* the document store: collection name -> set of documents
    kcRoles,    \* the access-control store: the set of role names
    task,       \* the Cleanup Task in the queue
    producer,   \* whether store.mutation_event_producer() is Some
    queued,     \* the task is in the queue (not acknowledged)
    pc,         \* per worker: the await its run is at
    roleset,    \* per worker: the local `roles` BTreeSet
    pending,    \* per worker: the institution ids still to pull
    colls,      \* per worker: the collection names still to sweep
    run,        \* per worker: what its current run has done so far
    aborts,     \* runs that returned an error
    readErrs,   \* stream items that were read as Err
    fullRuns,   \* runs that went through every step before complete()
    ackLog,     \* one record per successful complete()
    limits,     \* how many aborts and Err items the environment may produce
    call,       \* the identifier operation under evaluation and its argument
    ret,        \* what that operation returned
    other,      \* a second task in the queue, handed to the second worker
    token,        \* AdminTokenSupplier.token: the access token it holds
    token_future, \* AdminTokenSupplier.token_future: the in-flight receiver
    future_lock,  \* who holds the write lock of token_future
    token_lock,   \* the callers that hold a read guard of token
    channel,      \* per refresh: the state of its oneshot channel
    refresher,    \* the refresh loop: the await it is at, its locals
    getter,       \* per caller of get(): the await it is at, its locals
    db,           \* the relational store: table name -> set of rows
    mutation,     \* the mutation call in progress: arguments, await, result
    dispatch      \* the update_for_errors call: its actions, await, result

supplierVars ==
    <<token, token_future, future_lock, token_lock, channel, refresher, getter>>

sqlVars == <<db, mutation>>

vars == <<store, kcRoles, task, producer, queued, pc, roleset, pending, colls,
          run, aborts, readErrs, fullRuns, ackLog, limits, call, ret, other, supplierVars, sqlVars, dispatch>>

\* What a run has done: the store it started on, the steps it performed, the
\* stream items it skipped, whether a full run preceded it, its side effects.
NewRun(st, kc, after) ==
    [start |-> st, startRoles |-> kc, steps |-> <<>>, skipped |-> 0,
     afterFull |-> after, userReloads |-> 0, customerReloads |-> 0,
     events |-> <<>>]

NoRun == NewRun([c \in Range(CollectionNames) |-> {}], {}, FALSE)

Idle(w) == pc[w] \in {"idle", "done"}

\* No identifier operation is under evaluation.
NoCall == [op |-> "none"]

NotReturned == [tag |-> "pending"]

\* The queue holds no second task.
NoTask == [ty |-> "absent", ids |-> <<>>]

\* run(ctx, item): the task the queue hands to the worker.  The second worker
\* takes the second task when the queue holds one.
TaskOf(w) == IF w = "w2" /\ other # NoTask THEN other ELSE task

\* The callers of get() and the refreshes of one process.
Getters == {"g1", "g2"}

Refreshes == 1..MaxRefreshes

\* AdminTokenSupplier::new: the acquired session, no in-flight future.  Access
\* tokens are numbered in the order Keycloak issues them; `grant` is the
\* grant type that produced next_token, `status` the outcome of the refresh
\* request.
SupplierNew ==
    /\ token = 1
    /\ token_future = None
    /\ future_lock = "free"
    /\ token_lock = {}
    /\ channel = [r \in Refreshes |-> "none"]
    /\ refresher = [pc |-> "tick", gen |-> 0, next_token |-> None,
                    grant |-> "none", status |-> "none"]
    /\ getter = [g \in Getters |->
                    [pc |-> "idle", fut |-> None, during |-> 0, result |-> 0,
                     calls |-> 0]]

\* The relational store behind the PgPool when the service starts: one row
\* per table, and no mutation in progress.  A row keeps its id and the byte
\* lengths of its name and ty; the parent and audit columns, which no check
\* reads, are left out.
Row(id, name, ty) == [id |-> id, name |-> name, ty |-> ty]

Member(unit, m) == [organization_unit_id |-> unit, customer_id |-> m[1],
                    organization_id |-> m[2], institution_id |-> m[3]]

Levels == {"customer", "organization", "institution", "organization_unit"}

TableOf(level) == level \o "s"

SeededDb ==
    [t \in {TableOf(l) : l \in Levels} \cup {"organization_unit_members"} |->
        IF t = "organization_unit_members" THEN {Member(1, <<1, 1, 1>>)}
        ELSE {Row(1, 1, Len(DEFAULT_TYPE))}]

NoMutation == [pc |-> "idle", calls |-> 0]

\* update_for_errors has not been called.
NoDispatch == [pc |-> "idle"]

PoolNew ==
    /\ db = SeededDb
    /\ mutation = NoMutation

Start ==
    /\ store = WorldStore
    /\ kcRoles = WorldRoles
    /\ task \in Tasks
    /\ producer \in BOOLEAN
    /\ queued = TRUE
    /\ pc = [w \in Workers |-> "idle"]
    /\ roleset = [w \in Workers |-> {}]
    /\ pending = [w \in Workers |-> <<>>]
    /\ colls = [w \in Workers |-> <<>>]
    /\ run = [w \in Workers |-> NoRun]
    /\ aborts = 0
    /\ readErrs = 0
    /\ fullRuns = 0
    /\ ackLog = {}
    /\ call = NoCall
    /\ ret = NotReturned
    /\ other = NoTask
    /\ SupplierNew
    /\ PoolNew
    /\ dispatch = NoDispatch

\* Runs may fail: up to MaxAborts awaits return an error and up to
\* MaxReadErrors stream items are read as Err.
Init == Start /\ limits = [aborts |-> MaxAborts, readErrs |-> MaxReadErrors]

\* No operation fails.
InitConc == Start /\ limits = [aborts |-> 0, readErrs |-> 0]

\* A slip of the step order: the role scans of the descendants come after the
\* sweep that deletes them.
NextPc_scanAfterSweep(ty, at, more) ==
    CASE at = "session" ->
            (CASE ty = "Customers" -> "list"
               [] ty = "Organizations" -> "find_institutions"
               [] ty = "Institutions" -> IF more THEN "pull" ELSE "list"
               [] OTHER -> "sweep")
      [] at = "find_institutions" -> IF more THEN "pull" ELSE "list"
      [] at = "pull" -> IF more THEN "pull" ELSE "list"
      [] at = "list" -> "sweep"
      [] at = "sweep" ->
            IF more THEN "sweep"
            ELSE IF ty \in {"Customers", "Organizations"} THEN "extend_ou"
            ELSE "roles"
      [] at = "extend_ou" -> IF ty = "Customers" THEN "extend_org" ELSE "roles"
      [] at = "extend_org" -> "extend_inst"
      [] at = "extend_inst" -> "roles"
      [] at = "roles" -> "reload_users"
      [] at = "reload_users" -> "reload_customers"
      [] at = "reload_customers" -> "event"
      [] at = "event" -> "complete"
      [] OTHER -> "done"

\* A slip of the step order: the caches are asked to reload the users before
\* the roles are revoked.
NextPc_reloadBeforeRoles(ty, at, more) ==
    CASE at = "session" ->
            (CASE ty = "Customers" -> "extend_ou"
               [] ty = "Organizations" -> "find_institutions"
               [] ty = "Institutions" -> IF more THEN "pull" ELSE "list"
               [] OTHER -> "sweep")
      [] at = "find_institutions" -> IF more THEN "pull" ELSE "extend_ou"
      [] at = "pull" ->
            IF more THEN "pull"
            ELSE IF ty = "Organizations" THEN "extend_ou" ELSE "list"
      [] at = "extend_ou" -> IF ty = "Customers" THEN "extend_org" ELSE "list"
      [] at = "extend_org" -> "extend_inst"
      [] at = "extend_inst" -> "list"
      [] at = "list" -> "sweep"
      [] at = "sweep" -> IF more THEN "sweep" ELSE "reload_users"
      [] at = "reload_users" -> "roles"
      [] at = "roles" -> "reload_customers"
      [] at = "reload_customers" -> "event"
      [] at = "event" -> "complete"
      [] OTHER -> "done"

\* A slip of the step order: the deletion event is published before the
\* caches are asked to reload.
NextPc_eventBeforeReload(ty, at, more) ==
    CASE at = "session" ->
            (CASE ty = "Customers" -> "extend_ou"
               [] ty = "Organizations" -> "find_institutions"
               [] ty = "Institutions" -> IF more THEN "pull" ELSE "list"
               [] OTHER -> "sweep")
      [] at = "find_institutions" -> IF more THEN "pull" ELSE "extend_ou"
      [] at = "pull" ->
            IF more THEN "pull"
            ELSE IF ty = "Organizations" THEN "extend_ou" ELSE "list"
      [] at = "extend_ou" -> IF ty = "Customers" THEN "extend_org" ELSE "list"
      [] at = "extend_org" -> "extend_inst"
      [] at = "extend_inst" -> "list"
      [] at = "list" -> "sweep"
      [] at = "sweep" -> IF more THEN "sweep" ELSE "roles"
      [] at = "roles" -> "event"
      [] at = "event" -> "reload_users"
      [] at = "reload_users" -> "reload_customers"
      [] at = "reload_customers" -> "complete"
      [] OTHER -> "done"

\* The await that follows `at` in the cleanup function of the task type.
NextPc(ty, at, more) ==
    CASE at = "session" ->
            (CASE ty = "Customers" -> "extend_ou"
               [] ty = "Organizations" -> "find_institutions"
               [] ty = "Institutions" -> IF more THEN "pull" ELSE "list"
               [] OTHER -> "sweep")
      [] at = "find_institutions" -> IF more THEN "pull" ELSE "extend_ou"
      [] at = "pull" ->
            IF more THEN "pull"
            ELSE IF ty = "Organizations" THEN "extend_ou" ELSE "list"
      [] at = "extend_ou" -> IF ty = "Customers" THEN "extend_org" ELSE "list"
      [] at = "extend_org" -> "extend_inst"
      [] at = "extend_inst" -> "list"
      [] at = "list" -> "sweep"
      [] at = "sweep" -> IF more THEN "sweep" ELSE "roles"
      [] at = "roles" -> "reload_users"
      [] at = "reload_users" -> "reload_customers"
      [] at = "reload_customers" -> "event"
      [] at = "event" -> "complete"
      [] OTHER -> "done"

Did(w, step) == [run EXCEPT ![w].steps = Append(@, step)]

\* A slip of the dispatch: the None task is run like a deletion.
StartRun_alwaysSession(w) ==
    /\ pc' = [pc EXCEPT ![w] = "session"]
    /\ run' = [run EXCEPT ![w] = NewRun(store, kcRoles, fullRuns > 0)]
    /\ roleset' = [roleset EXCEPT ![w] = {}]
    /\ pending' = [pending EXCEPT ![w] = <<>>]
    /\ colls' = [colls EXCEPT ![w] = <<>>]
    /\ UNCHANGED <<store, kcRoles, task, producer, queued, aborts, readErrs,
                   fullRuns, ackLog, limits, call, ret, other, supplierVars, sqlVars, dispatch>>

\* The run a worker starts on the task it is handed.
StartRun(w) ==
    /\ pc' = [pc EXCEPT ![w] = IF TaskOf(w).ty = "None" THEN "complete" ELSE "session"]
    /\ run' = [run EXCEPT ![w] = NewRun(store, kcRoles, fullRuns > 0)]
    /\ roleset' = [roleset EXCEPT ![w] = {}]
    /\ pending' = [pending EXCEPT ![w] = <<>>]
    /\ colls' = [colls EXCEPT ![w] = <<>>]
    /\ UNCHANGED <<store, kcRoles, task, producer, queued, aborts, readErrs,
                   fullRuns, ackLog, limits, call, ret, other, supplierVars, sqlVars, dispatch>>

\* The first delivery: a worker takes the enqueued task.
Deliver(w) ==
    /\ queued
    /\ pc[w] = "idle"
    /\ \A v \in Workers : Idle(v)
    /\ aborts = 0
    /\ StartRun(w)

\* The redelivery: a run of the task returned an error without complete(),
\* the queue hands the task to an idle worker again.
Redeliver(w) ==
    /\ queued
    /\ pc[w] = "idle"
    /\ \A v \in Workers : Idle(v)
    /\ aborts > 0
    /\ StartRun(w)

\* The queue hands the task to a second worker while a run of it is still in
\* progress (the visibility timeout of the first delivery ran out).
DeliverAgain(w) ==
    /\ queued
    /\ pc[w] = "idle"
    /\ \E v \in Workers : ~Idle(v)
    /\ StartRun(w)

\* db.session(), then the seeding of the role set, which awaits nothing.
\* cleanup_institutions seeds inside its pull loop; cleanup_organization_units
\* calls remove_users without listing the collections.
OpenSession(w) ==
    /\ pc[w] = "session"
    /\ roleset' = [roleset EXCEPT ![w] =
            IF TaskOf(w).ty = "Institutions" THEN {}
            ELSE {SeedRole(TaskOf(w).ty, TaskOf(w).ids[i]) : i \in 1..Len(TaskOf(w).ids)}]
    /\ pending' = [pending EXCEPT ![w] =
            IF TaskOf(w).ty = "Institutions" THEN TaskOf(w).ids ELSE <<>>]
    /\ colls' = [colls EXCEPT ![w] =
            IF TaskOf(w).ty = "OrganizationUnits" THEN <<"users">> ELSE <<>>]
    /\ pc' = [pc EXCEPT ![w] = NextPc(TaskOf(w).ty, "session", TaskOf(w).ids # <<>>)]
    /\ run' = Did(w, "session")
    /\ UNCHANGED <<store, kcRoles, task, producer, queued, aborts, readErrs,
                   fullRuns, ackLog, limits, call, ret, other, supplierVars, sqlVars, dispatch>>

\* cleanup_organizations: find the institutions of the query and collect them.
FindInstitutions(w) ==
    /\ pc[w] = "find_institutions"
    /\ LET found == SortedSeq(InstitutionIdsOf(store.institutions, TaskQuery(TaskOf(w))))
       IN /\ pending' = [pending EXCEPT ![w] = found]
          /\ pc' = [pc EXCEPT ![w] = NextPc(TaskOf(w).ty, "find_institutions", found # <<>>)]
    /\ run' = Did(w, "find_institutions")
    /\ UNCHANGED <<store, kcRoles, task, producer, queued, roleset, colls,
                   aborts, readErrs, fullRuns, ackLog, limits, call, ret, other, supplierVars, sqlVars, dispatch>>

\* One turn of the loop over institution ids: update_organization_units(id);
\* in cleanup_institutions the turn first inserts the role of the id.
UpdateOrganizationUnits(w) ==
    /\ pc[w] = "pull"
    /\ pending[w] # <<>>
    /\ LET v == Head(pending[w])
       IN /\ store' = [store EXCEPT !.organization_units =
                            update_organization_units(@, v)]
          /\ roleset' = [roleset EXCEPT ![w] =
                IF TaskOf(w).ty = "Institutions" THEN @ \cup {SeedRole(TaskOf(w).ty, v)} ELSE @]
    /\ pending' = [pending EXCEPT ![w] = Tail(@)]
    /\ pc' = [pc EXCEPT ![w] = NextPc(TaskOf(w).ty, "pull", Tail(pending[w]) # <<>>)]
    /\ run' = Did(w, "pull")
    /\ UNCHANGED <<kcRoles, task, producer, queued, colls, aborts, readErrs,
                   fullRuns, ackLog, limits, call, ret, other, supplierVars, sqlVars, dispatch>>

ScanLevel(at) ==
    CASE at = "extend_ou" -> "organization_unit"
      [] at = "extend_org" -> "organization"
      [] OTHER -> "institution"

ScanCollection(at) ==
    CASE at = "extend_ou" -> "organization_units"
      [] at = "extend_org" -> "organizations"
      [] OTHER -> "institutions"

\* One extend_roles call; `failed` are the items the stream yields as Err.
ExtendRoles(w) ==
    /\ pc[w] \in {"extend_ou", "extend_org", "extend_inst"}
    /\ \E failed \in SUBSET {d \in store[ScanCollection(pc[w])] : Matches(d, TaskQuery(TaskOf(w)))} :
          /\ Cardinality(failed) <= limits.readErrs - readErrs
          /\ roleset' = [roleset EXCEPT ![w] =
                extend_roles(store[ScanCollection(pc[w])], @, TaskQuery(TaskOf(w)),
                             ScanLevel(pc[w]), failed)]
          /\ readErrs' = readErrs + Cardinality(failed)
          /\ run' = [Did(w, pc[w]) EXCEPT ![w].skipped = @ + Cardinality(failed)]
    /\ pc' = [pc EXCEPT ![w] = NextPc(TaskOf(w).ty, pc[w], FALSE)]
    /\ UNCHANGED <<store, kcRoles, task, producer, queued, pending, colls,
                   aborts, fullRuns, ackLog, limits, call, ret, other, supplierVars, sqlVars, dispatch>>

\* list_collection_names_with_session
ListCollections(w) ==
    /\ pc[w] = "list"
    /\ colls' = [colls EXCEPT ![w] = CollectionNames]
    /\ pc' = [pc EXCEPT ![w] = NextPc(TaskOf(w).ty, "list", TRUE)]
    /\ run' = Did(w, "list")
    /\ UNCHANGED <<store, kcRoles, task, producer, queued, roleset, pending,
                   aborts, readErrs, fullRuns, ackLog, limits, call, ret, other, supplierVars, sqlVars, dispatch>>

\* A slip of the sweep: the collection is written back from the copy the run
\* read when it started, less the matching documents.
Sweep_fromSnapshot(w) ==
    /\ pc[w] = "sweep"
    /\ colls[w] # <<>>
    /\ store' = [store EXCEPT ![Head(colls[w])] =
            SweepCollection(run[w].start, Head(colls[w]), TaskQuery(TaskOf(w)))[Head(colls[w])]]
    /\ colls' = [colls EXCEPT ![w] = Tail(@)]
    /\ pc' = [pc EXCEPT ![w] = NextPc(TaskOf(w).ty, "sweep", Tail(colls[w]) # <<>>)]
    /\ run' = Did(w, "sweep")
    /\ UNCHANGED <<kcRoles, task, producer, queued, roleset, pending, aborts,
                   readErrs, fullRuns, ackLog, limits, call, ret, other, supplierVars, sqlVars, dispatch>>

\* One turn of the sweep: remove_users or remove_documents on a collection.
Sweep(w) ==
    /\ pc[w] = "sweep"
    /\ colls[w] # <<>>
    /\ store' = SweepCollection(store, Head(colls[w]), TaskQuery(TaskOf(w)))
    /\ colls' = [colls EXCEPT ![w] = Tail(@)]
    /\ pc' = [pc EXCEPT ![w] = NextPc(TaskOf(w).ty, "sweep", Tail(colls[w]) # <<>>)]
    /\ run' = Did(w, "sweep")
    /\ UNCHANGED <<kcRoles, task, producer, queued, roleset, pending, aborts,
                   readErrs, fullRuns, ackLog, limits, call, ret, other, supplierVars, sqlVars, dispatch>>

\* cleanup_roles(.., roles, ..)
CleanupRoles(w) ==
    /\ pc[w] = "roles"
    /\ kcRoles' = cleanup_roles(kcRoles, roleset[w])
    /\ pc' = [pc EXCEPT ![w] = NextPc(TaskOf(w).ty, "roles", FALSE)]
    /\ run' = Did(w, "roles")
    /\ UNCHANGED <<store, task, producer, queued, roleset, pending, colls,
                   aborts, readErrs, fullRuns, ackLog, limits, call, ret, other, supplierVars, sqlVars, dispatch>>

\* store.cache().user().reload_users(..)
ReloadUsers(w) ==
    /\ pc[w] = "reload_users"
    /\ run' = [Did(w, "reload_users") EXCEPT ![w].userReloads = @ + 1]
    /\ pc' = [pc EXCEPT ![w] = NextPc(TaskOf(w).ty, "reload_users", FALSE)]
    /\ UNCHANGED <<store, kcRoles, task, producer, queued, roleset, pending,
                   colls, aborts, readErrs, fullRuns, ackLog, limits, call, ret, other, supplierVars, sqlVars, dispatch>>

\* store.cache().customer().reload(..)
ReloadCustomers(w) ==
    /\ pc[w] = "reload_customers"
    /\ run' = [Did(w, "reload_customers") EXCEPT ![w].customerReloads = @ + 1]
    /\ pc' = [pc EXCEPT ![w] = NextPc(TaskOf(w).ty, "reload_customers", FALSE)]
    /\ UNCHANGED <<store, kcRoles, task, producer, queued, roleset, pending,
                   colls, aborts, readErrs, fullRuns, ackLog, limits, call, ret, other, supplierVars, sqlVars, dispatch>>

\* A slip of the event of cleanup_customers: the namespace and collection of
\* cleanup_organizations copied with the call.
EventOf_copied(t) ==
    IF t.ty = "Institutions"
    THEN [ns |-> "Institution", collection |-> "institutions", ids |-> t.ids]
    ELSE IF t.ty = "OrganizationUnits"
    THEN [ns |-> "OrganizationUnit", collection |-> "organization_units",
          ids |-> t.ids]
    ELSE [ns |-> "Organization", collection |-> "organizations", ids |-> t.ids]

\* The delete_event call of each cleanup function: namespace, collection and
\* the ids it is given.  cleanup_organizations passes `cids`.
EventOf(t) ==
    CASE t.ty = "Customers" ->
            [ns |-> "Customer", collection |-> "customers", ids |-> t.ids]
      [] t.ty = "Organizations" ->
            [ns |-> "Organization", collection |-> "organizations",
             ids |-> [i \in 1..Len(t.ids) |->
                        StrictId(select_ids(t.ids, "cid")[i], None, None, None)]]
      [] t.ty = "Institutions" ->
            [ns |-> "Institution", collection |-> "institutions", ids |-> t.ids]
      [] OTHER ->
            [ns |-> "OrganizationUnit", collection |-> "organization_units",
             ids |-> t.ids]

\* if let Some(producer) = store.mutation_event_producer() { delete_event }
DeleteEvent(w) ==
    /\ pc[w] = "event"
    /\ run' = [Did(w, "event") EXCEPT ![w].events =
                    IF producer THEN Append(@, EventOf(TaskOf(w))) ELSE @]
    /\ fullRuns' = fullRuns + 1
    /\ pc' = [pc EXCEPT ![w] = NextPc(TaskOf(w).ty, "event", FALSE)]
    /\ UNCHANGED <<store, kcRoles, task, producer, queued, roleset, pending,
                   colls, aborts, readErrs, ackLog, limits, call, ret, other, supplierVars, sqlVars, dispatch>>

\* worker_ctx.complete(): the task leaves the queue.
Complete(w) ==
    /\ pc[w] = "complete"
    /\ queued' = FALSE
    /\ ackLog' = ackLog \cup {[worker |-> w, steps |-> run[w].steps,
                               skipped |-> run[w].skipped]}
    /\ pc' = [pc EXCEPT ![w] = "done"]
    /\ run' = Did(w, "complete")
    /\ UNCHANGED <<store, kcRoles, task, producer, roleset, pending, colls,
                   aborts, readErrs, fullRuns, limits, call, ret, other, supplierVars, sqlVars, dispatch>>

\* A slip of the error path: the failed run acknowledges the task.
Abort_acknowledging(w) ==
    /\ ~Idle(w)
    /\ aborts < limits.aborts
    /\ aborts' = aborts + 1
    /\ queued' = FALSE
    /\ pc' = [pc EXCEPT ![w] = "idle"]
    /\ roleset' = [roleset EXCEPT ![w] = {}]
    /\ pending' = [pending EXCEPT ![w] = <<>>]
    /\ colls' = [colls EXCEPT ![w] = <<>>]
    /\ UNCHANGED <<store, kcRoles, task, producer, run, readErrs,
                   fullRuns, ackLog, limits, call, ret, other, supplierVars, sqlVars, dispatch>>

\* Any await of a run may fail: `?` returns the error, the task is not
\* acknowledged and the worker is free for the redelivery.
Abort(w) ==
    /\ ~Idle(w)
    /\ aborts < limits.aborts
    /\ aborts' = aborts + 1
    /\ pc' = [pc EXCEPT ![w] = "idle"]
    /\ roleset' = [roleset EXCEPT ![w] = {}]
    /\ pending' = [pending EXCEPT ![w] = <<>>]
    /\ colls' = [colls EXCEPT ![w] = <<>>]
    /\ UNCHANGED <<store, kcRoles, task, producer, queued, run, readErrs,
                   fullRuns, ackLog, limits, call, ret, other, supplierVars, sqlVars, dispatch>>

Step(w) ==
    \/ OpenSession(w)
    \/ FindInstitutions(w)
    \/ UpdateOrganizationUnits(w)
    \/ ExtendRoles(w)
    \/ ListCollections(w)
    \/ Sweep(w)
    \/ CleanupRoles(w)
    \/ ReloadUsers(w)
    \/ ReloadCustomers(w)
    \/ DeleteEvent(w)
    \/ Complete(w)

Next == \E w \in Workers : Deliver(w) \/ Redeliver(w) \/ Step(w) \/ Abort(w)

Spec == Init /\ [][Next]_vars

\* Two workers on the same task at once, every operation succeeding.
NextConc == \E w \in Workers : Deliver(w) \/ DeliverAgain(w) \/ Step(w)

SpecConc == InitConc /\ [][NextConc]_vars

\* Fair scheduling: the queue keeps redelivering an unacknowledged task and a
\* worker that holds a run keeps executing it; the failures stop after
\* limits.aborts aborts.
SpecFair ==
    /\ Init
    /\ [][Next]_vars
    /\ WF_vars(\E w \in Workers : Deliver(w) \/ Redeliver(w))
    /\ \A w \in Workers : WF_vars(Step(w))

\* ------------------------------------------------- a run without failures
RECURSIVE PullAll(_, _)
PullAll(ous, ids) ==
    IF ids = <<>> THEN ous
    ELSE PullAll(update_organization_units(ous, Head(ids)), Tail(ids))

RECURSIVE SweepAll(_, _, _)
SweepAll(st, names, query) ==
    IF names = <<>> THEN st
    ELSE SweepAll(SweepCollection(st, Head(names), query), Tail(names), query)

\* The role set one run computes on the store st when every read succeeds.
RunRoles(t, st) ==
    LET seed == {SeedRole(t.ty, t.ids[i]) : i \in 1..Len(t.ids)}
        q == TaskQuery(t)
    IN CASE t.ty = "Customers" ->
              extend_roles(st.institutions,
                  extend_roles(st.organizations,
                      extend_roles(st.organization_units, seed, q,
                                   "organization_unit", {}),
                      q, "organization", {}),
                  q, "institution", {})
         [] t.ty = "Organizations" ->
              extend_roles(st.organization_units, seed, q, "organization_unit", {})
         [] OTHER -> seed

\* The store one run leaves when it starts on st and every step succeeds.
RunStore(t, st) ==
    LET q == TaskQuery(t)
        pulls == CASE t.ty = "Organizations" ->
                        SortedSeq(InstitutionIdsOf(st.institutions, q))
                   [] t.ty = "Institutions" -> t.ids
                   [] OTHER -> <<>>
        repaired == [st EXCEPT !.organization_units = PullAll(@, pulls)]
    IN CASE t.ty = "None" -> st
         [] t.ty = "OrganizationUnits" -> SweepAll(repaired, <<"users">>, q)
         [] OTHER -> SweepAll(repaired, CollectionNames, q)

\* ------------------------------------------------------ identifier strings
\* A Rust string is its UTF-8 bytes.  A byte is a hex digit, the ASCII letter
\* "g" (not a hex digit), or the lead or continuation byte of a two-byte
\* character.  s.len() is Len(s), the number of bytes.
SegLen == 24

MaxObjectId == 2
MaxBlocks == 4

\* The hex digits in use; the digits above them behave alike.
HexDigits == <<"0", "1", "2", "3">>

Nibble(c) == (CHOOSE k \in 1..Len(HexDigits) : HexDigits[k] = c) - 1

Rep(c, n) == [i \in 1..n |-> c]

\* EMPTY_ID
EMPTY_ID == Rep("0", SegLen)

\* Result<T, anyhow::Error>, and a panic of the thread.
Ok(v) == [tag |-> "ok", v |-> v]
Err(kind) == [tag |-> "err", v |-> kind]
Panic == [tag |-> "panic", v |-> "byte index is not a char boundary"]

\* Option<T>
Some(v) == <<v>>
Absent == <<>>

\* An ObjectId is 12 bytes, each a pair of nibbles; ObjectId k has every
\* nibble k.
ObjectId(k) == [b \in 1..(SegLen \div 2) |-> <<k, k>>]
ObjectIds == {ObjectId(k) : k \in 1..MaxObjectId}

\* ObjectId::to_hex: two hex digits per byte.
to_hex(v) ==
    [i \in 1..SegLen |-> HexDigits[v[(i + 1) \div 2][((i + 1) % 2) + 1] + 1]]

\* ObjectId::from_str: 24 hex digits, two per byte; anything else is an error.
ObjectId_from_str(seg) ==
    IF Len(seg) = SegLen /\ \A i \in 1..Len(seg) : seg[i] \in Range(HexDigits)
    THEN Ok([b \in 1..(SegLen \div 2) |->
                <<Nibble(seg[2 * b - 1]), Nibble(seg[2 * b])>>])
    ELSE Err("segment")

\* str::is_char_boundary
is_char_boundary(s, i) == i = 0 \/ i = Len(s) \/ (i < Len(s) /\ s[i + 1] # "cont")

\* parse_object_id(&s[a..b]): the slice panics off a char boundary; the
\* all-zero segment is None; any other segment goes to ObjectId::from_str.
parse_object_id_zeroIsId(s, a, b) ==
    IF ~(is_char_boundary(s, a) /\ is_char_boundary(s, b) /\ b <= Len(s))
    THEN Panic
    ELSE LET r == ObjectId_from_str(SubSeq(s, a + 1, b))
         IN IF r.tag = "ok" THEN Ok(Some(r.v)) ELSE r

parse_object_id(s, a, b) ==
    IF ~(is_char_boundary(s, a) /\ is_char_boundary(s, b) /\ b <= Len(s))
    THEN Panic
    ELSE IF SubSeq(s, a + 1, b) = EMPTY_ID THEN Ok(Absent)
    ELSE LET r == ObjectId_from_str(SubSeq(s, a + 1, b))
         IN IF r.tag = "ok" THEN Ok(Some(r.v)) ELSE r

\* parse_object_id(..)?.ok_or(anyhow!("'f' is required on T"))?
required(s, a, b) ==
    LET r == parse_object_id(s, a, b)
    IN IF r.tag # "ok" THEN r
       ELSE IF r.v = Absent THEN Err("required") ELSE Ok(r.v[1])

\* parse_object_id(..)? : an optional field
optional(s, a, b) == parse_object_id(s, a, b)

\* The field initialisers of a struct literal run in order; the first `?`
\* that fails returns its error, the first slice that panics unwinds.
FirstFailure(rs) == CHOOSE i \in 1..Len(rs) : rs[i].tag # "ok" /\ \A j \in 1..(i - 1) : rs[j].tag = "ok"

Build(rs, value) ==
    IF \E i \in 1..Len(rs) : rs[i].tag # "ok" THEN rs[FirstFailure(rs)] ELSE Ok(value)

\* ----------------------------------------------------- FromStr / to_value
EntityId_from_str(s) ==
    CASE Len(s) = 24 ->
            LET cid == optional(s, 0, 24)
            IN Build(<<cid>>, [id |-> Absent, cid |-> cid.v, oid |-> Absent, iid |-> Absent])
      [] Len(s) = 48 ->
            LET cid == optional(s, 0, 24)
                oid == optional(s, 24, 48)
            IN Build(<<cid, oid>>,
                     [id |-> Absent, cid |-> cid.v, oid |-> oid.v, iid |-> Absent])
      [] Len(s) = 72 ->
            LET cid == optional(s, 0, 24)
                oid == optional(s, 24, 48)
                iid == optional(s, 48, 72)
            IN Build(<<cid, oid, iid>>,
                     [id |-> Absent, cid |-> cid.v, oid |-> oid.v, iid |-> iid.v])
      [] Len(s) = 96 ->
            LET cid == optional(s, 0, 24)
                oid == optional(s, 24, 48)
                iid == optional(s, 48, 72)
                id == optional(s, 72, 96)
            IN Build(<<cid, oid, iid, id>>,
                     [id |-> id.v, cid |-> cid.v, oid |-> oid.v, iid |-> iid.v])
      [] OTHER -> Err("length")

HexOr(o) == IF o = Absent THEN EMPTY_ID ELSE to_hex(o[1])

EntityId_to_value(x) == HexOr(x.cid) \o HexOr(x.oid) \o HexOr(x.iid) \o HexOr(x.id)

CustomerId_from_str(s) ==
    IF Len(s) # 24 THEN Err("length")
    ELSE LET id == required(s, 0, 24)
         IN Build(<<id>>, [id |-> id.v])

CustomerId_to_value(x) == to_hex(x.id)

CustomerResourceId_from_str(s) ==
    IF Len(s) # 48 THEN Err("length")
    ELSE LET cid == required(s, 0, 24)
             id == required(s, 24, 48)
         IN Build(<<cid, id>>, [id |-> id.v, cid |-> cid.v])

CustomerResourceId_to_value(x) == to_hex(x.cid) \o to_hex(x.id)

OrganizationResourceId_from_str(s) ==
    IF Len(s) # 72 THEN Err("length")
    ELSE LET cid == required(s, 0, 24)
             oid == required(s, 24, 48)
             id == required(s, 48, 72)
         IN Build(<<cid, oid, id>>, [id |-> id.v, cid |-> cid.v, oid |-> oid.v])

OrganizationResourceId_to_value(x) == to_hex(x.cid) \o to_hex(x.oid) \o to_hex(x.id)

InstitutionResourceId_from_str(s) ==
    IF Len(s) # 96 THEN Err("length")
    ELSE LET cid == required(s, 0, 24)
             oid == required(s, 24, 48)
             iid == required(s, 48, 72)
             id == required(s, 72, 96)
         IN Build(<<cid, oid, iid, id>>,
                  [id |-> id.v, cid |-> cid.v, oid |-> oid.v, iid |-> iid.v])

InstitutionResourceId_to_value(x) ==
    to_hex(x.cid) \o to_hex(x.oid) \o to_hex(x.iid) \o to_hex(x.id)

\* enum OrganizationUnitId { Customer(CustomerResourceId),
\*                           Organization(OrganizationResourceId) }
OrganizationUnitId_from_str(s) ==
    IF Len(s) = 76
    THEN LET cid == required(s, 0, 24)
             oid == required(s, 24, 48)
             id == required(s, 48, 72)
         IN Build(<<cid, oid, id>>,
                  [variant |-> "Organization",
                   v |-> [id |-> id.v, cid |-> cid.v, oid |-> oid.v]])
    ELSE IF Len(s) = 48
    THEN LET cid == required(s, 0, 24)
             id == required(s, 24, 48)
         IN Build(<<cid, id>>,
                  [variant |-> "Customer", v |-> [id |-> id.v, cid |-> cid.v]])
    ELSE Err("length")

OrganizationUnitId_to_value(x) ==
    IF x.variant = "Customer" THEN CustomerResourceId_to_value(x.v)
    ELSE OrganizationResourceId_to_value(x.v)

OrganizationUnitResourceId_from_str(s) ==
    IF Len(s) = 96
    THEN LET cid == required(s, 0, 24)
             oid == required(s, 24, 48)
             uid == required(s, 48, 72)
             id == required(s, 72, 96)
         IN Build(<<cid, oid, uid, id>>,
                  [id |-> id.v, cid |-> cid.v, oid |-> Some(oid.v), uid |-> uid.v])
    ELSE IF Len(s) = 72
    THEN LET cid == required(s, 0, 24)
             uid == required(s, 24, 48)
             id == required(s, 48, 72)
         IN Build(<<cid, uid, id>>,
                  [id |-> id.v, cid |-> cid.v, oid |-> Absent, uid |-> uid.v])
    ELSE Err("length")

OrganizationUnitResourceId_to_value(x) ==
    IF x.oid # Absent
    THEN to_hex(x.cid) \o to_hex(x.oid[1]) \o to_hex(x.uid) \o to_hex(x.id)
    ELSE to_hex(x.cid) \o to_hex(x.uid) \o to_hex(x.id)

StrictEntityId_from_str(s) ==
    IF Len(s) # 96 THEN Err("length")
    ELSE LET cid == required(s, 0, 24)
             oid == required(s, 24, 48)
             iid == required(s, 48, 72)
             id == required(s, 72, 96)
         IN Build(<<cid, oid, iid, id>>,
                  [cid |-> cid.v, oid |-> oid.v, iid |-> iid.v, id |-> id.v])

StrictEntityId_to_value(x) ==
    to_hex(x.cid) \o to_hex(x.oid) \o to_hex(x.iid) \o to_hex(x.id)

IdTypes ==
    {"EntityId", "CustomerId", "CustomerResourceId", "OrganizationResourceId",
     "InstitutionResourceId", "OrganizationUnitId", "OrganizationUnitResourceId",
     "StrictEntityId"}

\* <T as FromStr>::from_str(s), as ScalarType::parse calls it.
from_str(ty, s) ==
    CASE ty = "EntityId" -> EntityId_from_str(s)
      [] ty = "CustomerId" -> CustomerId_from_str(s)
      [] ty = "CustomerResourceId" -> CustomerResourceId_from_str(s)
      [] ty = "OrganizationResourceId" -> OrganizationResourceId_from_str(s)
      [] ty = "InstitutionResourceId" -> InstitutionResourceId_from_str(s)
      [] ty = "OrganizationUnitId" -> OrganizationUnitId_from_str(s)
      [] ty = "OrganizationUnitResourceId" -> OrganizationUnitResourceId_from_str(s)
      [] OTHER -> StrictEntityId_from_str(s)

\* <T as ScalarType>::to_value(x)
to_value(ty, x) ==
    CASE ty = "EntityId" -> EntityId_to_value(x)
      [] ty = "CustomerId" -> CustomerId_to_value(x)
      [] ty = "CustomerResourceId" -> CustomerResourceId_to_value(x)
      [] ty = "OrganizationResourceId" -> OrganizationResourceId_to_value(x)
      [] ty = "InstitutionResourceId" -> InstitutionResourceId_to_value(x)
      [] ty = "OrganizationUnitId" -> OrganizationUnitId_to_value(x)
      [] ty = "OrganizationUnitResourceId" -> OrganizationUnitResourceId_to_value(x)
      [] OTHER -> StrictEntityId_to_value(x)

\* ------------------------------------------------- identifier operations
\* The strings handed to the parsers: up to MaxBlocks blocks, a block being a
\* 24-byte segment (all zero, an id, not hex), a 23-byte run, a two-byte
\* character, or a short run of 2 or 4 bytes.
Blocks ==
    {EMPTY_ID, Rep("1", SegLen), Rep("2", SegLen), Rep("g", SegLen),
     Rep("1", SegLen - 1), <<"lead", "cont">>, Rep("1", 2), Rep("1", 4)}

RECURSIVE Concat(_)
Concat(bs) == IF bs = <<>> THEN <<>> ELSE Head(bs) \o Concat(Tail(bs))

InputStrings == UNION {{Concat(bs) : bs \in [1..n -> Blocks]} : n \in 0..MaxBlocks}

cleanupVars ==
    <<store, kcRoles, task, producer, queued, pc, roleset, pending, colls, run,
      aborts, readErrs, fullRuns, ackLog, limits, other>>

\* The cleanup worker is not running: the identifier operations are pure.
Quiet ==
    /\ store = WorldStore
    /\ kcRoles = WorldRoles
    /\ task = [ty |-> "None", ids |-> <<>>]
    /\ producer = FALSE
    /\ queued = FALSE
    /\ pc = [w \in Workers |-> "idle"]
    /\ roleset = [w \in Workers |-> {}]
    /\ pending = [w \in Workers |-> <<>>]
    /\ colls = [w \in Workers |-> <<>>]
    /\ run = [w \in Workers |-> NoRun]
    /\ aborts = 0
    /\ readErrs = 0
    /\ fullRuns = 0
    /\ ackLog = {}
    /\ limits = [aborts |-> 0, readErrs |-> 0]
    /\ other = NoTask
    /\ SupplierNew
    /\ PoolNew
    /\ dispatch = NoDispatch

\* A caller hands a string to the parser of an id type.
InitStr ==
    /\ Quiet
    /\ call \in {[op |-> "from_str", ty |-> ty, s |-> s, formatted |-> FALSE] :
                    ty \in IdTypes, s \in InputStrings}
    /\ ret = NotReturned

\* T::from_str(s)
FromStr ==
    /\ call.op = "from_str"
    /\ ret = NotReturned
    /\ ret' = from_str(call.ty, call.s)
    /\ UNCHANGED <<cleanupVars, supplierVars, sqlVars, dispatch, call>>

NextStr == FromStr

SpecStr == InitStr /\ [][NextStr]_vars

\* The valid ids of each type: every mandatory field an ObjectId of
\* ObjectIds, every optional field absent or such an ObjectId.
Optionals == {Absent} \cup {Some(v) : v \in ObjectIds}

IdValues(ty) ==
    CASE ty = "EntityId" -> [id : Optionals, cid : Optionals, oid : Optionals, iid : Optionals]
      [] ty = "CustomerId" -> [id : ObjectIds]
      [] ty = "CustomerResourceId" -> [id : ObjectIds, cid : ObjectIds]
      [] ty = "OrganizationResourceId" -> [id : ObjectIds, cid : ObjectIds, oid : ObjectIds]
      [] ty = "InstitutionResourceId" ->
            [id : ObjectIds, cid : ObjectIds, oid : ObjectIds, iid : ObjectIds]
      [] ty = "OrganizationUnitId" ->
            [variant : {"Customer"}, v : [id : ObjectIds, cid : ObjectIds]]
            \cup [variant : {"Organization"},
                  v : [id : ObjectIds, cid : ObjectIds, oid : ObjectIds]]
      [] ty = "OrganizationUnitResourceId" ->
            [id : ObjectIds, cid : ObjectIds, oid : Optionals, uid : ObjectIds]
      [] OTHER -> [cid : ObjectIds, oid : ObjectIds, iid : ObjectIds, id : ObjectIds]

\* A caller formats an id and parses the string back.
FormatCalls ==
    UNION {{[op |-> "to_value", ty |-> ty, x |-> x] : x \in IdValues(ty)} : ty \in IdTypes}

\* T::to_value(x); the string then goes to T::from_str.
ToValue ==
    /\ call.op = "to_value"
    /\ call' = [op |-> "from_str", ty |-> call.ty, s |-> to_value(call.ty, call.x),
                x |-> call.x, formatted |-> TRUE]
    /\ UNCHANGED <<cleanupVars, supplierVars, sqlVars, dispatch, ret>>

\* ---------------------------------------------------------- Owner projection
\* An Owner is {ty, entityId}; its EntityId carries ObjectIds 1..MaxObjectId
\* or None in each field.  A projection returns Some(id) or Absent.
LooseIds ==
    {EntityId(id, cid, oid, iid) :
        id \in 0..MaxObjectId, cid \in 0..MaxObjectId, oid \in 0..MaxObjectId,
        iid \in 0..MaxObjectId}

Owners == {[ty |-> ty, entityId |-> e] : ty \in OwnerLevels, e \in LooseIds}

\* Owner::customer
Owner_customer(o) ==
    IF o.entityId.cid # None THEN Some([id |-> o.entityId.cid]) ELSE Absent

\* A slip of Owner::organization: the match arms take every variant.
Owner_organization_anyVariant(o) ==
    IF o.entityId.cid # None /\ o.entityId.oid # None
    THEN Some([cid |-> o.entityId.cid, id |-> o.entityId.oid])
    ELSE Absent

\* A slip of Owner::organization: the id is taken from the `id` field.
Owner_organization_ownId(o) ==
    IF /\ o.ty \in {"Organization", "OrganizationUnit", "Institution"}
       /\ o.entityId.cid # None /\ o.entityId.oid # None
    THEN Some([cid |-> o.entityId.cid, id |-> o.entityId.id])
    ELSE Absent

\* Owner::organization
Owner_organization(o) ==
    IF /\ o.ty \in {"Organization", "OrganizationUnit", "Institution"}
       /\ o.entityId.cid # None /\ o.entityId.oid # None
    THEN Some([cid |-> o.entityId.cid, id |-> o.entityId.oid])
    ELSE Absent

\* Owner::organization_unit
Owner_organization_unit(o) ==
    IF o.ty = "OrganizationUnit" /\ o.entityId.cid # None /\ o.entityId.iid # None
    THEN IF o.entityId.oid # None
         THEN Some([id |-> o.entityId.iid, cid |-> o.entityId.cid,
                    oid |-> o.entityId.oid])
         ELSE Some([id |-> o.entityId.iid, cid |-> o.entityId.cid])
    ELSE Absent

\* Owner::institution
Owner_institution(o) ==
    IF /\ o.ty = "Institution"
       /\ o.entityId.cid # None /\ o.entityId.oid # None /\ o.entityId.iid # None
    THEN Some([cid |-> o.entityId.cid, oid |-> o.entityId.oid,
               id |-> o.entityId.iid])
    ELSE Absent

Projections == {"customer", "organization", "organization_unit", "institution"}

project(fn, o) ==
    CASE fn = "customer" -> Owner_customer(o)
      [] fn = "organization" -> Owner_organization(o)
      [] fn = "organization_unit" -> Owner_organization_unit(o)
      [] OTHER -> Owner_institution(o)

ProjectCalls == {[op |-> "project", fn |-> fn, owner |-> o] : fn \in Projections, o \in Owners}

\* owner.customer() / organization() / organization_unit() / institution()
Project ==
    /\ call.op = "project"
    /\ ret = NotReturned
    /\ ret' = Ok(project(call.fn, call.owner))
    /\ UNCHANGED <<cleanupVars, supplierVars, sqlVars, dispatch, call>>

\* ------------------------------------------------- conversions from EntityId
\* A converted id is the tuple of its fields, ancestors first, as as_*_id
\* above; <<>> is none.

\* EntityId::as_customer_id : id.map
as_customer_id(e) == IF e.id # None THEN <<e.id>> ELSE <<>>

\* Option::unwrap_or_default on an ID: the id, or the default ObjectId d.
unwrap_or_default(v, d) == IF v # None THEN v ELSE d

\* The ObjectIds Default::default() can produce: a newly generated id, which
\* may or may not be one already in use.
DefaultIds == 1..(MaxObjectId + 1)

DefaultFields == {"id", "cid", "oid"}

\* From<EntityId> for CustomerId
CustomerId_from(e, d) == <<unwrap_or_default(e.id, d["id"])>>

\* From<EntityId> for OrganizationId
OrganizationId_from(e, d) ==
    <<unwrap_or_default(e.cid, d["cid"]), unwrap_or_default(e.id, d["id"])>>

\* From<EntityId> for InstitutionId
InstitutionId_from(e, d) ==
    <<unwrap_or_default(e.cid, d["cid"]), unwrap_or_default(e.oid, d["oid"]),
      unwrap_or_default(e.id, d["id"])>>

\* TryFrom<EntityId> for OrganizationUnitId
OrganizationUnitId_try_from(e) ==
    IF e.cid = None THEN Err("cid is missing")
    ELSE IF e.id = None THEN Err("id is missing")
    ELSE IF e.oid # None THEN Ok(<<e.cid, e.oid, e.id>>)
    ELSE Ok(<<e.cid, e.id>>)

\* TryFrom<EntityId> for StrictOrganizationUnitId
StrictOrganizationUnitId_try_from(e) ==
    IF e.cid = None THEN Err("cid is missing")
    ELSE IF e.id = None THEN Err("id is missing")
    ELSE IF e.oid # None THEN Ok(<<e.cid, e.oid, e.id>>)
    ELSE Ok(<<e.cid, e.id>>)

Conversions ==
    {"as_customer_id", "as_organization_id", "as_institution_id",
     "as_organization_unit_id", "CustomerId::from", "OrganizationId::from",
     "InstitutionId::from", "OrganizationUnitId::try_from",
     "StrictOrganizationUnitId::try_from"}

convert(fn, e, d) ==
    CASE fn = "as_customer_id" -> Ok(as_customer_id(e))
      [] fn = "as_organization_id" -> Ok(as_organization_id(e))
      [] fn = "as_institution_id" -> Ok(as_institution_id(e))
      [] fn = "as_organization_unit_id" -> Ok(as_organization_unit_id(e))
      [] fn = "CustomerId::from" -> Ok(CustomerId_from(e, d))
      [] fn = "OrganizationId::from" -> Ok(OrganizationId_from(e, d))
      [] fn = "InstitutionId::from" -> Ok(InstitutionId_from(e, d))
      [] fn = "OrganizationUnitId::try_from" -> OrganizationUnitId_try_from(e)
      [] OTHER -> StrictOrganizationUnitId_try_from(e)

ConvertCalls == {[op |-> "convert", fn |-> fn, e |-> e] : fn \in Conversions, e \in LooseIds}

\* e.as_*_id() / T::from(e) / T::try_from(e)
Convert ==
    /\ call.op = "convert"
    /\ ret = NotReturned
    /\ \E d \in [DefaultFields -> DefaultIds] : ret' = convert(call.fn, call.e, d)
    /\ UNCHANGED <<cleanupVars, supplierVars, sqlVars, dispatch, call>>

\* ------------------------------------------------------------------ ordering
\* #[derive(Ord)] compares the fields of a struct in declaration order and the
\* variants of an enum by their position first.  ObjectIds compare as their
\* bytes, Option puts None before Some: both are the order of the integers
\* here (None = 0 below every ObjectId).
Ordering_of(x, y) == IF x < y THEN "Less" ELSE IF x > y THEN "Greater" ELSE "Equal"

RECURSIVE LexCmp(_, _, _)
LexCmp(a, b, fs) ==
    IF fs = <<>> THEN "Equal"
    ELSE IF a[Head(fs)] # b[Head(fs)] THEN Ordering_of(a[Head(fs)], b[Head(fs)])
    ELSE LexCmp(a, b, Tail(fs))

OrdTypes ==
    {"CustomerResourceId", "OrganizationResourceId", "InstitutionResourceId",
     "OrganizationUnitId", "EntityId", "StrictOrganizationId",
     "StrictOrganizationUnitId", "StrictInstitutionId", "StrictEntityId"}

\* The fields of each struct in the order they are declared.
DeclaredFields(ty) ==
    CASE ty = "CustomerResourceId" -> <<"id", "cid">>
      [] ty = "OrganizationResourceId" -> <<"id", "cid", "oid">>
      [] ty = "InstitutionResourceId" -> <<"id", "cid", "oid", "iid">>
      [] ty = "EntityId" -> <<"id", "cid", "oid", "iid">>
      [] ty = "StrictOrganizationId" -> <<"cid", "oid">>
      [] ty = "StrictOrganizationUnitId" -> <<"cid", "oid", "uid">>
      [] ty = "StrictInstitutionId" -> <<"cid", "oid", "iid">>
      [] OTHER -> <<"cid", "oid", "iid", "id">>

\* enum OrganizationUnitId { Customer(..), Organization(..) }
VariantIndex(v) == IF v = "Customer" THEN 0 ELSE 1

VariantType(v) == IF v = "Customer" THEN "CustomerResourceId" ELSE "OrganizationResourceId"

\* Ord::cmp as derived for the type
cmp(ty, a, b) ==
    IF ty = "OrganizationUnitId"
    THEN IF a.variant # b.variant
         THEN Ordering_of(VariantIndex(a.variant), VariantIndex(b.variant))
         ELSE LexCmp(a, b, DeclaredFields(VariantType(a.variant)))
    ELSE LexCmp(a, b, DeclaredFields(ty))

PresentIds == 1..MaxObjectId

\* The values of a type; the Customer variant of OrganizationUnitId has no oid.
OrdValues(ty) ==
    CASE ty = "CustomerResourceId" -> [id : PresentIds, cid : PresentIds]
      [] ty = "OrganizationResourceId" -> [id : PresentIds, cid : PresentIds, oid : PresentIds]
      [] ty = "InstitutionResourceId" -> [id : PresentIds, cid : PresentIds, oid : PresentIds, iid : PresentIds]
      [] ty = "OrganizationUnitId" ->
            [variant : {"Customer"}, id : PresentIds, cid : PresentIds, oid : {None}]
            \cup [variant : {"Organization"}, id : PresentIds, cid : PresentIds, oid : PresentIds]
      [] ty = "EntityId" -> LooseIds
      [] ty = "StrictOrganizationId" -> [cid : PresentIds, oid : PresentIds]
      [] ty = "StrictOrganizationUnitId" -> [cid : PresentIds, oid : 0..MaxObjectId, uid : PresentIds]
      [] ty = "StrictInstitutionId" -> [cid : PresentIds, oid : PresentIds, iid : PresentIds]
      [] OTHER -> [cid : PresentIds, oid : PresentIds, iid : PresentIds, id : PresentIds]

CmpCalls ==
    UNION {{[op |-> "cmp", ty |-> ty, a |-> a, b |-> b] :
                a \in OrdValues(ty), b \in OrdValues(ty)} : ty \in OrdTypes}

\* a.cmp(&b)
Cmp ==
    /\ call.op = "cmp"
    /\ ret = NotReturned
    /\ ret' = Ok(cmp(call.ty, call.a, call.b))
    /\ UNCHANGED <<cleanupVars, supplierVars, sqlVars, dispatch, call>>

\* ------------------------------------------- Owner from a strict institution id
\* From<StrictInstitutionId> for EntityId
EntityId_from_StrictInstitutionId(v) == EntityId(v.iid, v.cid, v.oid, None)

\* From<ContextFilterInput> for Owner: the variant of the level, v.into()
Owner_from(ty, e) == [ty |-> ty, entityId |-> e]

StrictInstitutionIds ==
    {StrictId(c, o, i, None) : c \in PresentIds, o \in PresentIds, i \in PresentIds}

StrictOwnerCalls == {[op |-> "owner_from", strict |-> v] : v \in StrictInstitutionIds}

\* Owner::Institution(strict.into()), then owner.institution()
BuildOwner ==
    /\ call.op = "owner_from"
    /\ call' = [op |-> "project", fn |-> "institution",
                owner |-> Owner_from("Institution",
                                     EntityId_from_StrictInstitutionId(call.strict)),
                strict |-> call.strict]
    /\ UNCHANGED <<cleanupVars, supplierVars, sqlVars, dispatch, ret>>

\* ------------------------------------------------------- id operations
InitIds ==
    /\ Quiet
    /\ call \in FormatCalls \cup ProjectCalls \cup ConvertCalls \cup CmpCalls
                \cup StrictOwnerCalls
    /\ ret = NotReturned

NextIds == ToValue \/ FromStr \/ Project \/ Convert \/ Cmp \/ BuildOwner

SpecIds == InitIds /\ [][NextIds]_vars

\* --------------------------------------- runs on a store with documents gone
\* A task is enqueued after its node was deleted, and institutions may have
\* been deleted before: the run can start on a store where institution
\* documents are absent while Organization Units still list them as members.
GapStores ==
    {[WorldStore EXCEPT !.institutions = @ \ gone] :
        gone \in SUBSET WorldStore.institutions}

InitGaps ==
    /\ store \in GapStores
    /\ kcRoles = WorldRoles
    /\ task \in Tasks
    /\ producer \in BOOLEAN
    /\ queued = TRUE
    /\ pc = [w \in Workers |-> "idle"]
    /\ roleset = [w \in Workers |-> {}]
    /\ pending = [w \in Workers |-> <<>>]
    /\ colls = [w \in Workers |-> <<>>]
    /\ run = [w \in Workers |-> NoRun]
    /\ aborts = 0
    /\ readErrs = 0
    /\ fullRuns = 0
    /\ ackLog = {}
    /\ limits = [aborts |-> 0, readErrs |-> 0]
    /\ call = NoCall
    /\ ret = NotReturned
    /\ other = NoTask
    /\ SupplierNew
    /\ PoolNew
    /\ dispatch = NoDispatch

\* One delivery, every operation succeeding.
NextGaps == \E w \in Workers : Deliver(w) \/ Step(w)

SpecGaps == InitGaps /\ [][NextGaps]_vars

\* ------------------------------------------------ two tasks, two workers
\* The customers the ids of a task name.
CustomersOf(t) == Range(select_ids(t.ids, "cid"))

\* Two tasks for unrelated subtrees: they share no customer.
Unrelated(a, b) == CustomersOf(a) \cap CustomersOf(b) = {}

\* The customers of the first task come before those of the second.
InOrder(a, b) == \A x \in CustomersOf(a), y \in CustomersOf(b) : x <= y

\* The queue holds two tasks for unrelated subtrees, the first worker's
\* on the lower customers; no operation fails.
InitPair ==
    /\ store = WorldStore
    /\ kcRoles = WorldRoles
    /\ task \in Tasks \ {[ty |-> "None", ids |-> <<>>]}
    /\ other \in {t \in Tasks : t.ty # "None" /\ Unrelated(task, t) /\ InOrder(task, t)}
    /\ producer \in BOOLEAN
    /\ queued = TRUE
    /\ pc = [w \in Workers |-> "idle"]
    /\ roleset = [w \in Workers |-> {}]
    /\ pending = [w \in Workers |-> <<>>]
    /\ colls = [w \in Workers |-> <<>>]
    /\ run = [w \in Workers |-> NoRun]
    /\ aborts = 0
    /\ readErrs = 0
    /\ fullRuns = 0
    /\ ackLog = {}
    /\ limits = [aborts |-> 0, readErrs |-> 0]
    /\ call = NoCall
    /\ ret = NotReturned
    /\ SupplierNew
    /\ PoolNew
    /\ dispatch = NoDispatch

\* The queue hands each worker its task, at any time.
DeliverEach(w) ==
    /\ pc[w] = "idle"
    /\ StartRun(w)

\* The two runs interleave await by await.
NextPair == \E w \in Workers : DeliverEach(w) \/ Step(w)

SpecPair == InitPair /\ [][NextPair]_vars

\* ------------------------------------------------------ admin token supplier
\* AdminTokenSupplier::refresh has registered its receiver and not returned.
InFlight == refresher.pc \in {"request", "acquire", "write", "send"}

\* The refresh loop of KeycloakBuilder::build: the token expires within 30
\* seconds, it calls refresh(), which creates its oneshot channel.
Tick ==
    /\ refresher.pc = "tick"
    /\ refresher.gen < MaxRefreshes
    /\ refresher' = [pc |-> "register", gen |-> refresher.gen + 1,
                     next_token |-> None, grant |-> "none", status |-> "none"]
    /\ channel' = [channel EXCEPT ![refresher.gen + 1] = "open"]
    /\ UNCHANGED <<cleanupVars, call, ret, sqlVars, dispatch, token_lock, token, token_future, future_lock, getter>>

\* self.token_future.write().await.replace(Box::pin(Box::new(rx)))
Register ==
    /\ refresher.pc = "register"
    /\ future_lock = "free"
    /\ token_future' = refresher.gen
    /\ refresher' = [refresher EXCEPT !.pc = "request"]
    /\ UNCHANGED <<cleanupVars, call, ret, sqlVars, dispatch, token_lock, token, future_lock, channel, getter>>

\* A slip of the error path: the sender outlives the failed refresh.
ReturnErr_keepingTx(status) ==
    /\ refresher' = [refresher EXCEPT !.pc = "exit", !.status = status]
    /\ UNCHANGED channel

\* Returning Err drops tx: the receiver resolves with RecvError; the loop
\* then ends the process.
ReturnErr(status) ==
    /\ channel' = [channel EXCEPT ![refresher.gen] = "closed"]
    /\ refresher' = [refresher EXCEPT !.pc = "exit", !.status = status]

\* A slip of the status test: every failed refresh request falls back to the
\* credentials.
Respond_alwaysFallback ==
    /\ refresher.pc = "request"
    /\ \E outcome \in {"ok", "expired", "error"} :
        IF outcome = "ok"
        THEN refresher' = [refresher EXCEPT !.pc = "write",
                                            !.next_token = token + 1,
                                            !.grant = "refresh_token",
                                            !.status = outcome]
        ELSE refresher' = [refresher EXCEPT !.pc = "acquire",
                                            !.status = outcome]
    /\ UNCHANGED <<cleanupVars, call, ret, sqlVars, dispatch, token_lock, token, token_future,
                   future_lock, channel, getter>>

\* KeycloakSession::refresh(url, refresh_token, client).await: a new session,
\* HTTP 400 (the refresh token expired), or another error.
Respond ==
    /\ refresher.pc = "request"
    /\ \E outcome \in {"ok", "expired", "error"} :
        CASE outcome = "ok" ->
               /\ refresher' = [refresher EXCEPT !.pc = "write",
                                                 !.next_token = token + 1,
                                                 !.grant = "refresh_token",
                                                 !.status = outcome]
               /\ UNCHANGED channel
          [] outcome = "expired" ->
               /\ refresher' = [refresher EXCEPT !.pc = "acquire",
                                                 !.status = outcome]
               /\ UNCHANGED channel
          [] OTHER -> ReturnErr(outcome)
    /\ UNCHANGED <<cleanupVars, call, ret, sqlVars, dispatch, token_lock, token, token_future,
                   future_lock, getter>>

\* KeycloakSession::acquire(url, username, password, client).await?
Acquire ==
    /\ refresher.pc = "acquire"
    /\ \E outcome \in {"ok", "error"} :
        IF outcome = "ok"
        THEN /\ refresher' = [refresher EXCEPT !.pc = "write",
                                               !.next_token = token + 1,
                                               !.grant = "password"]
             /\ UNCHANGED channel
        ELSE ReturnErr(refresher.status)
    /\ UNCHANGED <<cleanupVars, call, ret, sqlVars, dispatch, token_lock, token, token_future, future_lock, getter>>

\* self.token.write().await.replace(next_token): the write guard is granted
\* when no read guard is held, and dropped at the end of the statement.
WriteToken ==
    /\ refresher.pc = "write"
    /\ token_lock = {}
    /\ token' = refresher.next_token
    /\ refresher' = [refresher EXCEPT !.pc = "send"]
    /\ UNCHANGED <<cleanupVars, call, ret, sqlVars, dispatch, token_lock, token_future, future_lock, channel, getter>>

\* tx.send(()).ok(); Ok(()): back in the loop.
Send ==
    /\ refresher.pc = "send"
    /\ channel' = [channel EXCEPT ![refresher.gen] = "sent"]
    /\ refresher' = [refresher EXCEPT !.pc = "tick"]
    /\ UNCHANGED <<cleanupVars, call, ret, sqlVars, dispatch, token_lock, token, token_future, future_lock, getter>>

\* A caller enters AdminTokenSupplier::get; `during` notes the refresh that
\* is in flight at that moment.
GetStart(g) ==
    /\ getter[g].pc = "idle"
    /\ getter[g].calls < MaxGets
    /\ getter' = [getter EXCEPT ![g] =
                    [pc |-> "take", fut |-> None,
                     during |-> IF InFlight THEN refresher.gen ELSE 0,
                     result |-> 0, calls |-> getter[g].calls + 1]]
    /\ UNCHANGED <<cleanupVars, call, ret, sqlVars, dispatch, token_lock, token, token_future, future_lock,
                   channel, refresher>>

\* A slip of the guard's scope: the write guard is dropped right after take().
GetTake_releasing(g) ==
    /\ getter[g].pc = "take"
    /\ future_lock = "free"
    /\ IF token_future # None
       THEN /\ token_future' = None
            /\ getter' = [getter EXCEPT ![g].pc = "await", ![g].fut = token_future]
       ELSE /\ getter' = [getter EXCEPT ![g].pc = "read"]
            /\ UNCHANGED token_future
    /\ UNCHANGED <<cleanupVars, call, ret, sqlVars, dispatch, token_lock, token, future_lock, channel, refresher>>

\* if let Some(token_future) = self.token_future.write().await.take(): the
\* write guard is a temporary of the scrutinee and lives to the end of the
\* if-let, over the await in its body.
GetTake(g) ==
    /\ getter[g].pc = "take"
    /\ future_lock = "free"
    /\ IF token_future # None
       THEN /\ token_future' = None
            /\ future_lock' = g
            /\ getter' = [getter EXCEPT ![g].pc = "await", ![g].fut = token_future]
       ELSE /\ getter' = [getter EXCEPT ![g].pc = "read"]
            /\ UNCHANGED <<token_future, future_lock>>
    /\ UNCHANGED <<cleanupVars, call, ret, sqlVars, dispatch, token_lock, token, channel, refresher>>

\* token_future.await.ok(): resolves when tx has sent or was dropped; the end
\* of the if-let drops the write guard.
GetAwait(g) ==
    /\ getter[g].pc = "await"
    /\ channel[getter[g].fut] \in {"sent", "closed"}
    /\ future_lock' = "free"
    /\ getter' = [getter EXCEPT ![g].pc = "read"]
    /\ UNCHANGED <<cleanupVars, call, ret, sqlVars, dispatch, token_lock, token, token_future, channel, refresher>>

\* self.token.read().await: the read guard is granted unless a writer is
\* queued for the lock (tokio's RwLock is fair to writers).
GetReadLock(g) ==
    /\ getter[g].pc = "read"
    /\ refresher.pc # "write"
    /\ token_lock' = token_lock \cup {g}
    /\ getter' = [getter EXCEPT ![g].pc = "reading"]
    /\ UNCHANGED <<cleanupVars, call, ret, sqlVars, dispatch, token, token_future, future_lock,
                   channel, refresher>>

\* .as_ref(): Ok(token.access_token.clone()); the end of the if-let drops the
\* read guard.
GetRead(g) ==
    /\ getter[g].pc = "reading"
    /\ token_lock' = token_lock \ {g}
    /\ getter' = [getter EXCEPT ![g].pc = "returned", ![g].result = token]
    /\ UNCHANGED <<cleanupVars, call, ret, sqlVars, dispatch, token, token_future, future_lock,
                   channel, refresher>>

\* The caller uses the token and may call get() again.
GetAgain(g) ==
    /\ getter[g].pc = "returned"
    /\ getter[g].calls < MaxGets
    /\ getter' = [getter EXCEPT ![g].pc = "idle"]
    /\ UNCHANGED <<cleanupVars, call, ret, sqlVars, dispatch, token_lock, token, token_future, future_lock,
                   channel, refresher>>

\* The supplier right after construction; the cleanup worker is not running.
InitToken ==
    /\ Quiet
    /\ call = NoCall
    /\ ret = NotReturned

NextToken ==
    \/ Tick
    \/ Register
    \/ Respond
    \/ Acquire
    \/ WriteToken
    \/ Send
    \/ \E g \in Getters :
        GetStart(g) \/ GetTake(g) \/ GetAwait(g) \/ GetReadLock(g) \/ GetRead(g)
        \/ GetAgain(g)

SpecToken == InitToken /\ [][NextToken]_vars

\* Fair scheduling: the runtime keeps polling every task that can make
\* progress, the HTTP requests of refresh() come back, and both locks are
\* granted to a waiter once they are free.  When the loop starts a refresh and
\* when a caller enters get() is up to the environment.
SpecTokenFair ==
    /\ InitToken
    /\ [][NextToken]_vars
    /\ WF_vars(Register)
    /\ WF_vars(Respond)
    /\ WF_vars(Acquire)
    /\ WF_vars(WriteToken)
    /\ WF_vars(Send)
    /\ \A g \in Getters :
        /\ WF_vars(GetTake(g))
        /\ WF_vars(GetAwait(g))
        /\ WF_vars(GetReadLock(g))
        /\ WF_vars(GetRead(g))

\* --------------------------------------------------- relational mutations
\* check_max_size(name, v, max_len): v.len() is the byte length.
check_max_size(v, max_len) ==
    IF v # Absent /\ v[1] > max_len THEN Err("bigger than max_len") ELSE Ok(<<>>)

\* The check_max_size calls a mutation makes before its first statement:
\* create_* checks name and ty; update_customer, update_institution and
\* update_organization_unit check name; update_organization checks nothing.
Checks(m) ==
    IF m.op = "create"
    THEN <<check_max_size(Some(m.name), NAME_MAX_LEN),
           check_max_size(m.ty, TY_MAX_LEN)>>
    ELSE IF m.level = "organization" THEN <<>>
    ELSE <<check_max_size(Some(m.name), NAME_MAX_LEN)>>

NameLens == {1, NAME_MAX_LEN, NAME_MAX_LEN + 1}

TyLens == {Absent, Some(TY_MAX_LEN), Some(TY_MAX_LEN + 1)}

\* InstitutionIds: the members handed to create_organization_unit.
MemberLists ==
    {SubSeq(<<<<1, 1, 1>>, <<1, 1, 2>>>>, 1, n) : n \in 0..MaxMembers}

\* The arguments of the create_* and update_* calls.
Mutations ==
    {[op |-> "create", level |-> l, id |-> i, name |-> n, ty |-> t, members |-> ms] :
        l \in Levels, i \in {None, 2}, n \in NameLens, t \in TyLens,
        ms \in MemberLists}
    \cup
    {[op |-> "update", level |-> l, id |-> i, name |-> n, ty |-> Absent,
      members |-> <<>>] : l \in Levels, i \in {1, 2}, n \in NameLens}

\* The id the database gives an inserted row: the given one or the next of
\* the sequence.
NextId(rows) ==
    1 + CHOOSE k \in {r.id : r \in rows} : \A r \in rows : r.id <= k

Returned(m, result) == [m EXCEPT !.pc = "returned", !.result = result]

\* A resolver calls create_* or update_*.
Call ==
    /\ mutation.pc \in {"idle", "returned"}
    /\ mutation.calls < MaxCalls
    /\ \E a \in Mutations :
        /\ a.level # "organization_unit" => a.members = <<>>
        /\ mutation' = [pc |-> "check", calls |-> mutation.calls + 1,
                        op |-> a.op, level |-> a.level, id |-> a.id,
                        name |-> a.name, ty |-> a.ty, members |-> a.members,
                        before |-> db, issued |-> 0, rec |-> None,
                        result |-> NotReturned]
    /\ UNCHANGED <<cleanupVars, supplierVars, dispatch, call, ret, db>>

\* check_max_size(..)?; check_max_size(..)?: the first Err is returned.
Check ==
    /\ mutation.pc = "check"
    /\ LET failed == {i \in DOMAIN Checks(mutation) : Checks(mutation)[i].tag = "err"}
       IN  IF failed # {}
           THEN mutation' =
                  Returned(mutation,
                           Checks(mutation)[CHOOSE i \in failed : \A j \in failed : i <= j])
           ELSE mutation' = [mutation EXCEPT !.pc = "statement"]
    /\ UNCHANGED <<cleanupVars, supplierVars, dispatch, call, ret, db>>

\* INSERT INTO <table> ... RETURNING ... .fetch_one(pool).await?
Insert(m) ==
    LET rows == db[TableOf(m.level)]
        id == IF m.id # None THEN m.id ELSE NextId(rows)
        ty == IF m.ty = Absent THEN Len(DEFAULT_TYPE) ELSE m.ty[1]
    IN  /\ id \notin {r.id : r \in rows}
        /\ db' = [db EXCEPT ![TableOf(m.level)] = rows \cup {Row(id, m.name, ty)}]
        /\ mutation' =
             IF m.level = "organization_unit"
             THEN [m EXCEPT !.pc = "members", !.rec = id, !.issued = @ + 1]
             ELSE Returned([m EXCEPT !.rec = id, !.issued = @ + 1], Ok(id))

\* UPDATE <table> SET name = $2 ... WHERE v.id = $1 RETURNING ...
\* .fetch_one(pool).await?
Update(m) ==
    LET rows == db[TableOf(m.level)]
    IN  /\ m.id \in {r.id : r \in rows}
        /\ db' = [db EXCEPT ![TableOf(m.level)] =
                    {IF r.id = m.id THEN [r EXCEPT !.name = m.name] ELSE r : r \in rows}]
        /\ mutation' =
             IF m.level = "organization_unit"
             THEN [m EXCEPT !.pc = "select", !.rec = m.id, !.issued = @ + 1]
             ELSE Returned([m EXCEPT !.rec = m.id, !.issued = @ + 1], Ok(m.id))

\* The statement comes back with an error; `?` returns it.
Failed(m) ==
    /\ mutation' = Returned([m EXCEPT !.issued = @ + 1], Err("sqlx"))
    /\ UNCHANGED db

\* The first statement of the call, on the pool.
Statement ==
    /\ mutation.pc = "statement"
    /\ \/ mutation.op = "create" /\ Insert(mutation)
       \/ mutation.op = "update" /\ Update(mutation)
       \/ Failed(mutation)
    /\ UNCHANGED <<cleanupVars, supplierVars, dispatch, call, ret>>

\* INSERT INTO organization_unit_members ... SELECT * FROM UNNEST(...)
\* .execute(pool).await?: a second statement on the pool.
InsertMembers ==
    /\ mutation.pc = "members"
    /\ \/ /\ db' = [db EXCEPT !["organization_unit_members"] =
                      @ \cup {Member(mutation.rec, mutation.members[i]) :
                                i \in DOMAIN mutation.members}]
          /\ mutation' = Returned([mutation EXCEPT !.issued = @ + 1],
                                  Ok(mutation.rec))
       \/ Failed(mutation)
    /\ UNCHANGED <<cleanupVars, supplierVars, dispatch, call, ret>>

\* SELECT ... FROM organization_unit_members WHERE organization_unit_id = $1
\* .fetch_all(pool).await?
SelectMembers ==
    /\ mutation.pc = "select"
    /\ \/ /\ mutation' = Returned([mutation EXCEPT !.issued = @ + 1],
                                  Ok(mutation.rec))
          /\ UNCHANGED db
       \/ Failed(mutation)
    /\ UNCHANGED <<cleanupVars, supplierVars, dispatch, call, ret>>

\* The service has started; resolvers call the mutations one after another.
InitSql ==
    /\ Quiet
    /\ call = NoCall
    /\ ret = NotReturned

NextSql == Call \/ Check \/ Statement \/ InsertMembers \/ SelectMembers

SpecSql == InitSql /\ [][NextSql]_vars

\* ----------------------------------------------------- update_for_errors
\* The updaters in the order update_for_errors calls them, each with the
\* prefix it filters by: REALM_PREFIX, CLIENTS_CLIENT_PREFIX,
\* REALM_AUTHENTICATION_FLOWS_PREFIX, REALM_BROWSER_FLOW_PREFIX.
UpdaterOrder ==
    <<"update_realm_settings", "update_client_settings",
      "update_autentication_flows", "update_browser_flow">>

Updaters == {UpdaterOrder[k] : k \in DOMAIN UpdaterOrder}

\* An error id is known by the prefixes it starts with; the values of the
\* prefix constants are left open, so an id may start with any of them.
ErrorIds == SUBSET Updaters

\* e.id.starts_with(<prefix of updater u>)
starts_with(id, u) == u \in id

ErrorLists == UNION {[1..n -> ErrorIds] : n \in 0..MaxErrors}

\* actions.iter().filter(|e| e.id.starts_with(prefix)).cloned().collect():
\* the positions of the input errors handed to updater u.
Batch(d, u) == SelectSeq(d.actions, LAMBDA i : starts_with(d.errors[i], u))

\* actions.retain(|e| !e.id.starts_with(prefix))
Retained(d, u) == SelectSeq(d.actions, LAMBDA i : ~starts_with(d.errors[i], u))

PositionOf(u) == CHOOSE k \in DOMAIN UpdaterOrder : UpdaterOrder[k] = u

AfterUpdater(u) ==
    IF PositionOf(u) < Len(UpdaterOrder) THEN UpdaterOrder[PositionOf(u) + 1]
    ELSE "finish"

\* update_for_errors(ctx, errors): let mut actions = errors
CallUpdate ==
    /\ dispatch.pc = "idle"
    /\ \E errors \in ErrorLists :
        dispatch' = [pc |-> UpdaterOrder[1], errors |-> errors,
                     actions |-> [i \in 1..Len(errors) |-> i],
                     handed |-> <<>>, result |-> NotReturned]
    /\ UNCHANGED <<cleanupVars, supplierVars, sqlVars, call, ret>>

\* A slip of the bookkeeping: the handed errors stay in actions.
RunUpdater_keeping(u) ==
    /\ dispatch.pc = u
    /\ \E ok \in IF Batch(dispatch, u) = <<>> THEN {TRUE} ELSE BOOLEAN :
        dispatch' =
          [dispatch EXCEPT
             !.handed = Append(@, [updater |-> u, batch |-> Batch(dispatch, u),
                                   ok |-> ok]),
             !.pc = IF ok THEN AfterUpdater(u) ELSE "returned",
             !.result = IF ok THEN @ ELSE Err("updater failed")]
    /\ UNCHANGED <<cleanupVars, supplierVars, sqlVars, call, ret>>

\* update_<u>(ctx, realm, <batch>).await?; actions.retain(..): an updater
\* with an empty batch returns Ok at once, any other may fail on one of its
\* Keycloak requests, and `?` then returns its error.
RunUpdater(u) ==
    /\ dispatch.pc = u
    /\ \E ok \in IF Batch(dispatch, u) = <<>> THEN {TRUE} ELSE BOOLEAN :
        dispatch' =
          [dispatch EXCEPT
             !.handed = Append(@, [updater |-> u, batch |-> Batch(dispatch, u),
                                   ok |-> ok]),
             !.actions = IF ok THEN Retained(dispatch, u) ELSE @,
             !.pc = IF ok THEN AfterUpdater(u) ELSE "returned",
             !.result = IF ok THEN @ ELSE Err("updater failed")]
    /\ UNCHANGED <<cleanupVars, supplierVars, sqlVars, call, ret>>

\* if !actions.is_empty() { return Err("Could not resolve all errors") } Ok(())
Finish ==
    /\ dispatch.pc = "finish"
    /\ dispatch' =
         [dispatch EXCEPT
            !.pc = "returned",
            !.result = IF dispatch.actions # <<>>
                       THEN Err("Could not resolve all errors") ELSE Ok(<<>>)]
    /\ UNCHANGED <<cleanupVars, supplierVars, sqlVars, call, ret>>

\* The validation hands a list of errors to update_for_errors.
InitFix ==
    /\ Quiet
    /\ call = NoCall
    /\ ret = NotReturned

NextFix == CallUpdate \/ (\E u \in Updaters : RunUpdater(u)) \/ Finish

SpecFix == InitFix /\ [][NextFix]_vars

\* ------------------------------------------------------------------ claims
Done(w) == pc[w] = "done"

\* C1: convergence under partial failure: whenever a run has completed, after
\* any number of aborted runs and redeliveries (every stream item read as Ok),
\* the document store and the access-control store are what one failure-free
\* run from the starting state produces.
C1_Convergence ==
    \A w \in Workers :
        (Done(w) /\ readErrs = 0) =>
            /\ store = RunStore(task, WorldStore)
            /\ kcRoles = WorldRoles \ RunRoles(task, WorldStore)

\* The roles of the nodes that the store st holds under Organization (c, o).
InstitutionRolesUnder(st, c, o) ==
    {Access("institution", <<d.cid, d.oid, d.id>>) :
        d \in {x \in st.institutions : x.cid = c /\ x.oid = o}}

UnitRolesUnder(st, c, o) ==
    {Access("organization_unit", <<d.cid, d.oid, d.id>>) :
        d \in {x \in st.organization_units : x.cid = c /\ x.oid = o}}

\* C2: a completed run for Organizations([(C,O)]) has revoked the role of O
\* and the role of every Institution and every Organization Unit that was
\* under (C,O) in the store when the run started.
C2_OrganizationRolesRevoked ==
    \A w \in Workers :
        (Done(w) /\ task.ty = "Organizations" /\ Len(task.ids) = 1
                 /\ run[w].skipped = 0) =>
            LET c == task.ids[1].cid
                o == task.ids[1].oid
            IN kcRoles \cap ({Access("organization", <<c, o>>)}
                             \cup InstitutionRolesUnder(run[w].start, c, o)
                             \cup UnitRolesUnder(run[w].start, c, o)) = {}

C4_CustomerCascade ==
    \A w \in Workers :
        LET c == task.ids[1].cid
            st == run[w].start
        IN (/\ Done(w) /\ task.ty = "Customers" /\ Len(task.ids) = 1
            /\ \E org \in st.organizations, ins \in st.institutions :
                 /\ org.cid = c /\ ins.cid = c /\ ins.oid = org.id
                 /\ User("Institution", EntityId(None, c, org.id, ins.id)) \in st.users)
           =>
           /\ \A n \in {"organizations", "institutions", "organization_units"} :
                \A d \in store[n] : d.cid # c
           /\ \A u \in store.users : u.owner.entityId.cid # c
           /\ Access("customer", <<c>>) \notin kcRoles
           /\ \A d \in st.organizations :
                d.cid = c => Access("organization", <<c, d.id>>) \notin kcRoles
           /\ \A d \in st.institutions :
                d.cid = c => Access("institution", <<c, d.oid, d.id>>) \notin kcRoles

Outside(f, c, o) == f.cid # c \/ f.oid # o

\* C6: during and after a run for Organizations([(C1,O)]) every document whose
\* cid differs from C1, or whose cid is C1 and whose oid differs from O, is
\* still in its collection as it was at the start (users by their Owner
\* fields), and every such Organization Unit still has every member that does
\* not reference (C1,O).
C6_NonCascading ==
    (task.ty = "Organizations" /\ Len(task.ids) = 1) =>
        LET c == task.ids[1].cid
            o == task.ids[1].oid
        IN /\ \A n \in {"customers", "organizations", "institutions"} :
                {d \in WorldStore[n] : Outside(d, c, o)} \subseteq store[n]
           /\ {u \in WorldStore.users : Outside(u.owner.entityId, c, o)}
                \subseteq store.users
           /\ \A d \in WorldStore.organization_units :
                Outside(d, c, o) =>
                    \E e \in store.organization_units :
                        /\ e.id = d.id /\ e.cid = d.cid /\ e.oid = d.oid
                        /\ {m \in e.members : Outside(m, c, o)} =
                                {m \in d.members : Outside(m, c, o)}

\* C6 witness: a completed Organizations([(C1,O)]) run that deleted documents
\* and pulled the members under (C1,O) from a unit that keeps other members.
C6_Witness ==
    \E w \in Workers :
        /\ Done(w) /\ task.ty = "Organizations" /\ Len(task.ids) = 1
        /\ store.institutions # WorldStore.institutions
        /\ store.users # WorldStore.users
        /\ \E e \in store.organization_units :
                /\ e.cid = task.ids[1].cid /\ e.oid = None /\ e.members # {}
                /\ \A m \in e.members : m.oid # task.ids[1].oid

\* C7: a run that starts after a run of the same task went through all its
\* steps leaves the document store and the access-control store as that first
\* run left them, at every step and when it completes.
C7_Idempotent ==
    \A w \in Workers :
        run[w].afterFull =>
            /\ store = run[w].start
            /\ kcRoles = run[w].startRoles

\* C7 witness: a second run has completed after a full first run that had
\* deleted documents and revoked roles.
C7_Witness ==
    \E w \in Workers :
        /\ Done(w) /\ run[w].afterFull
        /\ store # WorldStore /\ kcRoles # WorldRoles

\* C8: the task is acknowledged only by a run in which every step succeeded:
\* no acknowledging run has read a document as Err while computing its roles.
C8_AckOnlyOnSuccess == \A a \in ackLog : a.skipped = 0

\* C9: when two workers have run the same task concurrently to completion,
\* with every operation succeeding, the document store and the access-control
\* store are what a single run produces.
C9_ConcurrentSafe ==
    (\A w \in Workers : Done(w)) =>
        /\ store = RunStore(task, WorldStore)
        /\ kcRoles = WorldRoles \ RunRoles(task, WorldStore)

\* C9 witness: both workers completed a run of a task that deletes documents
\* and revokes descendant roles.
C9_Witness ==
    /\ \A w \in Workers : Done(w)
    /\ task.ty \in {"Customers", "Organizations"}
    /\ store # WorldStore
    /\ \E r \in WorldRoles \ kcRoles : r.level # TaskLevel(task.ty)

\* The steps a run of the task type performs before complete().
RequiredSteps(ty) ==
    CASE ty = "Customers" ->
            {"session", "extend_ou", "extend_org", "extend_inst", "list", "sweep",
             "roles", "reload_users", "reload_customers", "event"}
      [] ty = "Organizations" ->
            {"session", "find_institutions", "extend_ou", "list", "sweep",
             "roles", "reload_users", "reload_customers", "event"}
      [] ty = "Institutions" ->
            {"session", "pull", "list", "sweep", "roles", "reload_users",
             "reload_customers", "event"}
      [] ty = "OrganizationUnits" ->
            {"session", "sweep", "roles", "reload_users", "reload_customers",
             "event"}
      [] OTHER -> {}

\* C10: the task is eventually acknowledged and leaves the queue, and it has
\* left the queue only if a run of it performed all its steps.
C10_EventualAck ==
    /\ <>(~queued)
    /\ [](~queued =>
            \E a \in ackLog : RequiredSteps(task.ty) \subseteq Range(a.steps))

\* C10 witness: the task was acknowledged by a redelivered run, after an
\* earlier run of it had failed.
C10_Witness == ~queued /\ aborts > 0 /\ task.ty # "None"

\* The length the claims give for the formatted string of an id.
CanonicalLength(ty, x) ==
    CASE ty = "CustomerId" -> 24
      [] ty = "CustomerResourceId" -> 48
      [] ty = "OrganizationResourceId" -> 72
      [] ty = "OrganizationUnitId" -> IF x.variant = "Customer" THEN 48 ELSE 72
      [] ty = "OrganizationUnitResourceId" -> IF x.oid = Absent THEN 72 ELSE 96
      [] OTHER -> 96

\* C11: round trip: the string formatted from a valid id of any composite id
\* type has the canonical length of the type, and parsing it yields the id.
C11_RoundTrip ==
    (call.op = "from_str" /\ call.formatted) =>
        /\ Len(call.s) = CanonicalLength(call.ty, call.x)
        /\ ret.tag # "pending" => (ret.tag = "ok" /\ ret.v = call.x)

\* The result r is the error of the given kind.
IsErr(r, kind) == r.tag = "err" /\ r.v = kind

\* The valid lengths the claims give for the strings of a type.
ValidLengths(ty) ==
    CASE ty = "CustomerId" -> {24}
      [] ty = "CustomerResourceId" -> {48}
      [] ty = "OrganizationResourceId" -> {72}
      [] ty = "OrganizationUnitId" -> {48, 72}
      [] ty = "EntityId" -> {24, 48, 72, 96}
      [] OTHER -> {96}

\* The k-th 24-byte segment of s holds hex digits only, not all of them zero.
IdSegment(s, k) ==
    /\ \A i \in (SegLen * (k - 1) + 1)..(SegLen * k) : s[i] \in Range(HexDigits)
    /\ \E i \in (SegLen * (k - 1) + 1)..(SegLen * k) : s[i] # "0"

\* C12: length validation: for the types with a stated set of valid lengths,
\* a string of any other length fails with the length error, and a string of
\* a valid length whose segments are all hex ids is accepted.
C12_LengthValidation ==
    (/\ call.op = "from_str" /\ ~call.formatted /\ ret.tag # "pending"
     /\ call.ty # "OrganizationUnitResourceId")
    =>
    /\ Len(call.s) \notin ValidLengths(call.ty) => IsErr(ret, "length")
    /\ (/\ Len(call.s) \in ValidLengths(call.ty)
        /\ \A k \in 1..(Len(call.s) \div SegLen) : IdSegment(call.s, k))
       => ret.tag = "ok"

\* The k-th 24-byte segment of s.
Segment(s, k) == SubSeq(s, SegLen * (k - 1) + 1, SegLen * k)

\* Every 24-byte segment of s holds hex digits only.
HexSegments(s) ==
    /\ Len(s) % SegLen = 0
    /\ \A i \in 1..Len(s) : s[i] \in Range(HexDigits)

\* The parser of a type with mandatory fields only has gone past its length
\* check on a string of hex segments.
MandatoryParsed ==
    /\ call.op = "from_str" /\ ~call.formatted
    /\ call.ty # "EntityId"
    /\ HexSegments(call.s)
    /\ ret.tag # "pending" /\ ~IsErr(ret, "length")

\* C13 as stated: parsing into a type whose fields are all mandatory decodes
\* an all-zero segment successfully, as a zero-valued id.
C13_ZeroDecodes == MandatoryParsed => ret.tag = "ok"

\* The fields EntityId::from_str reads from the segments, in order.
EntityIdFields == <<"cid", "oid", "iid", "id">>

\* C13 amended: the all-zero segment is the absent field for every parser.
\* A type whose fields are all mandatory rejects a string with an all-zero
\* segment with the "required" error and accepts every other string of hex
\* segments; EntityId accepts it and leaves exactly the fields of the all-zero
\* segments absent.
C13_ZeroIsAbsent ==
    /\ MandatoryParsed =>
        IF \E k \in 1..(Len(call.s) \div SegLen) : Segment(call.s, k) = EMPTY_ID
        THEN IsErr(ret, "required")
        ELSE ret.tag = "ok"
    /\ (/\ call.op = "from_str" /\ ~call.formatted /\ call.ty = "EntityId"
        /\ HexSegments(call.s) /\ Len(call.s) \in {24, 48, 72, 96}
        /\ ret.tag # "pending")
       => /\ ret.tag = "ok"
          /\ \A k \in 1..4 :
                (ret.v[EntityIdFields[k]] = Absent) <=>
                    (k > Len(call.s) \div SegLen \/ Segment(call.s, k) = EMPTY_ID)

\* C13 witness: StrictEntityId::from_str has rejected a 96-byte string of hex
\* segments one of which is all zero, and such strings reach EntityId too.
C13_Witness ==
    /\ MandatoryParsed
    /\ call.ty = "StrictEntityId"
    /\ \E k \in 1..4 : Segment(call.s, k) = EMPTY_ID
    /\ \E k \in 1..4 : Segment(call.s, k) # EMPTY_ID
    /\ IsErr(ret, "required")

\* Fields of the Owner's EntityId a projection needs.
Needs(fn) ==
    CASE fn = "customer" -> {"cid"}
      [] fn = "organization" -> {"cid", "oid"}
      [] fn = "organization_unit" -> {"cid", "iid"}
      [] OTHER -> {"cid", "oid", "iid"}

\* Owner variants a projection answers for.
Anchors(fn) ==
    CASE fn = "customer" -> OwnerLevels
      [] fn = "organization" -> {"Organization", "OrganizationUnit", "Institution"}
      [] fn = "organization_unit" -> {"OrganizationUnit"}
      [] OTHER -> {"Institution"}

Projected == call.op = "project" /\ ret.tag = "ok"

HasFields(e, fs) == \A f \in fs : e[f] # None

\* C14 as stated: customer(), organization() and institution() return an
\* identifier if and only if the Owner's EntityId carries every field of that
\* level, whatever the Owner's variant.
C14_ProjectionByFields ==
    (Projected /\ call.fn # "organization_unit") =>
        (ret.v # Absent <=> HasFields(call.owner.entityId, Needs(call.fn)))

\* C14: a projection returns an identifier if and only if the Owner's variant
\* is one the projection answers for and the Owner's EntityId carries every
\* field of that level; it returns none otherwise.
C14_ProjectionByLevel ==
    Projected =>
        (ret.v # Absent <=>
            /\ call.owner.ty \in Anchors(call.fn)
            /\ HasFields(call.owner.entityId, Needs(call.fn)))

C14_Witness ==
    /\ Projected
    /\ call.fn = "organization"
    /\ call.owner.ty = "Customer"
    /\ HasFields(call.owner.entityId, {"cid", "oid"})
    /\ ret.v = Absent

\* Values an identifier is built from.
FieldValues(r) == {r[f] : f \in DOMAIN r}

\* C15: projection is total and fabricates nothing: Owner::Customer without cid
\* gives none from customer(); Owner::Institution with cid, oid and iid gives
\* OrganizationId {cid, id: oid} from organization(); every returned identifier
\* is built only from values present in the Owner's EntityId.
C15_ProjectionSafety ==
    (call.op = "project" /\ ret # NotReturned) =>
        /\ ret.tag = "ok"
        /\ (call.fn = "customer" /\ call.owner.ty = "Customer"
                /\ call.owner.entityId.cid = None) => ret.v = Absent
        /\ (call.fn = "organization" /\ call.owner.ty = "Institution"
                /\ HasFields(call.owner.entityId, {"cid", "oid", "iid"})) =>
              ret.v = Some([cid |-> call.owner.entityId.cid,
                            id |-> call.owner.entityId.oid])
        /\ ret.v # Absent =>
              FieldValues(ret.v[1]) \subseteq FieldValues(call.owner.entityId) \ {None}

C15_Witness ==
    /\ Projected
    /\ call.fn = "organization"
    /\ call.owner.ty = "Institution"
    /\ HasFields(call.owner.entityId, {"cid", "oid", "iid"})
    /\ call.owner.entityId.id = None
    /\ ret.v # Absent

\* Fields of the EntityId a conversion's target requires.
Required(fn) ==
    CASE fn \in {"as_customer_id", "CustomerId::from"} -> {"id"}
      [] fn \in {"as_institution_id", "InstitutionId::from"} -> {"cid", "oid", "id"}
      [] OTHER -> {"cid", "id"}

\* C16: a conversion from an EntityId yields an id only when the EntityId
\* carries every field the target requires, and the id is built from the
\* EntityId's fields only; a missing field gives none or an error.
C16_ConversionsValidate ==
    (call.op = "convert" /\ ret.tag = "ok" /\ ret.v # <<>>) =>
        /\ HasFields(call.e, Required(call.fn))
        /\ Range(ret.v) \subseteq FieldValues(call.e) \ {None}

\* The fields of a type, ancestors first and the own id last.
AncestorFirst(ty) ==
    CASE ty = "CustomerResourceId" -> <<"cid", "id">>
      [] ty \in {"OrganizationResourceId", "OrganizationUnitId"} -> <<"cid", "oid", "id">>
      [] ty \in {"InstitutionResourceId", "EntityId", "StrictEntityId"} ->
            <<"cid", "oid", "iid", "id">>
      [] ty = "StrictOrganizationId" -> <<"cid", "oid">>
      [] ty = "StrictOrganizationUnitId" -> <<"cid", "oid", "uid">>
      [] OTHER -> <<"cid", "oid", "iid">>

Reverse(o) == IF o = "Less" THEN "Greater" ELSE IF o = "Greater" THEN "Less" ELSE "Equal"

\* C17: the comparison of two ids of a composite type is a total order (equal
\* only on equal ids, antisymmetric) that compares the ancestor fields first
\* and the own id last: cid, then oid, then iid, then id.
C17_AncestorFirstOrder ==
    (call.op = "cmp" /\ ret.tag = "ok") =>
        /\ (ret.v = "Equal" <=> call.a = call.b)
        /\ ret.v = Reverse(cmp(call.ty, call.b, call.a))
        /\ ret.v = LexCmp(call.a, call.b, AncestorFirst(call.ty))

\* C18: parsing is total: for every input string every id parse operation
\* returns an id or an error value and never panics.
C18_ParsingTotal ==
    (call.op = "from_str" /\ ret # NotReturned) => ret.tag \in {"ok", "err"}

\* C19: a task of type None is a no-op completion: its run acknowledges the
\* task and deletes or updates no document, revokes no role, reloads no cache
\* and publishes no event.
C19_NoneIsNoOp ==
    task.ty = "None" =>
        /\ store = WorldStore
        /\ kcRoles = WorldRoles
        /\ \A w \in Workers :
              /\ Range(run[w].steps) \subseteq {"complete"}
              /\ run[w].userReloads = 0
              /\ run[w].customerReloads = 0
              /\ run[w].events = <<>>
              /\ pc[w] = "done" => (~queued /\ \E a \in ackLog : a.worker = w)

C19_Witness ==
    /\ task.ty = "None"
    /\ \E w \in Workers : pc[w] = "done" /\ run[w].steps = <<"complete">>
    /\ ~queued

\* The steps of a run follow the ranks: no step of a lower rank comes after a
\* step of a higher one.
InRankOrder(steps, rank) ==
    \A i, j \in 1..Len(steps) : i < j => rank[steps[i]] <= rank[steps[j]]

StepNames ==
    {"session", "find_institutions", "pull", "extend_ou", "extend_org",
     "extend_inst", "list", "sweep", "roles", "reload_users",
     "reload_customers", "event", "complete"}

\* The ranks of C20 as stated: the role set is computed before the repair.
StatedRank ==
    [s \in StepNames |->
        CASE s = "session" -> 1
          [] s \in {"extend_ou", "extend_org", "extend_inst"} -> 2
          [] s \in {"find_institutions", "pull"} -> 3
          [] s \in {"list", "sweep"} -> 4
          [] s = "roles" -> 5
          [] s \in {"reload_users", "reload_customers"} -> 6
          [] s = "event" -> 7
          [] OTHER -> 8]

\* The role set and the repair share a rank: either may come first.
CodeRank ==
    [s \in StepNames |->
        CASE s = "session" -> 1
          [] s \in {"extend_ou", "extend_org", "extend_inst",
                    "find_institutions", "pull"} -> 2
          [] s \in {"list", "sweep"} -> 4
          [] s = "roles" -> 5
          [] s \in {"reload_users", "reload_customers"} -> 6
          [] s = "event" -> 7
          [] OTHER -> 8]

\* C20 as stated: the steps of a run come strictly in the order session, role
\* set, repair of the membership, cascade delete, roles, reloads, event,
\* acknowledgement.
C20_StatedOrder == \A w \in Workers : InRankOrder(run[w].steps, StatedRank)

\* C20: the steps of a run come in the order session, then the computation of
\* the role set and the repair of the membership (in either order, both before
\* the cascade delete), then cascade delete, roles, reloads, event,
\* acknowledgement; the run is at one step at a time.
C20_StepOrder == \A w \in Workers : InRankOrder(run[w].steps, CodeRank)

C20_Witness ==
    \E w \in Workers :
        /\ pc[w] = "done"
        /\ task.ty = "Organizations"
        /\ \E i, j \in 1..Len(run[w].steps) :
              i < j /\ run[w].steps[i] = "pull" /\ run[w].steps[j] = "extend_ou"
        /\ run[w].steps[Len(run[w].steps)] = "complete"

\* The roles of the descendants that the store st holds below the nodes of
\* the task: for a customer its organizations, institutions and units, for an
\* organization its institutions and units.
DescendantRoles(t, st) ==
    CASE t.ty = "Customers" ->
            UNION {{Access("organization", <<d.cid, d.id>>) :
                        d \in {x \in st.organizations : x.cid = t.ids[k].cid}}
                   \cup {Access("institution", <<d.cid, d.oid, d.id>>) :
                        d \in {x \in st.institutions : x.cid = t.ids[k].cid}}
                   \cup {Access("organization_unit",
                                as_organization_unit_id(EntityId(d.id, d.cid, d.oid, None))) :
                        d \in {x \in st.organization_units : x.cid = t.ids[k].cid}}
                   : k \in 1..Len(t.ids)}
      [] t.ty = "Organizations" ->
            UNION {InstitutionRolesUnder(st, t.ids[k].cid, t.ids[k].oid)
                   \cup UnitRolesUnder(st, t.ids[k].cid, t.ids[k].oid)
                   : k \in 1..Len(t.ids)}
      [] OTHER -> {}

ScanSteps == {"extend_ou", "extend_org", "extend_inst"}

\* The scans of a run are over and its role set is still in use.
ScansOver(w) == pc[w] \in {"list", "sweep", "roles"}

\* C21: in every run every scan that adds descendant roles completes before
\* the first document deletion of the run, and the role set of a run that
\* started on the uncleaned store holds a role for every descendant present
\* at the start.
C21_RolesFromPreDeletion ==
    \A w \in Workers :
        /\ \A i, j \in 1..Len(run[w].steps) :
              (run[w].steps[i] = "sweep" /\ run[w].steps[j] \in ScanSteps) => j < i
        /\ (ScansOver(w) /\ run[w].start = WorldStore) =>
              DescendantRoles(task, run[w].start) \subseteq roleset[w]

\* The member m references a node deleted by the task: an institution of a
\* deleted organization, or a deleted institution.
ReferencesDeleted(m, t) ==
    \E k \in 1..Len(t.ids) :
        /\ m.cid = t.ids[k].cid /\ m.oid = t.ids[k].oid
        /\ t.ty = "Institutions" => m.iid = t.ids[k].iid

\* The repair of the run is over: it is at its bulk deletion or beyond.
RepairOver(w) ==
    pc[w] \in {"list", "sweep", "roles", "reload_users", "reload_customers",
               "event", "complete", "done"}

\* C22: in every Organizations or Institutions run, whether or not the
\* institution documents still exist when it starts, from the first bulk
\* deletion on and after the completed run no Organization Unit lists a
\* member that references a deleted node.
C22_NoDanglingMember ==
    \A w \in Workers :
        (RepairOver(w) /\ task.ty \in {"Organizations", "Institutions"}) =>
            \A d \in store.organization_units :
                \A m \in d.members : ~ReferencesDeleted(m, task)

\* How often a run has performed the step.
Count(steps, name) == Cardinality({i \in 1..Len(steps) : steps[i] = name})

\* The id fields the deletion predicate is applied to: the Owner's nested
\* fields for a user, the direct fields of any other document.
PredicateFields(name, d) == IF name = "users" THEN d.owner.entityId ELSE d

\* C23: every completed cleanup run of every task type has enumerated the
\* collections of the document store and applied the deletion predicate to
\* each one, the users collection through the Owner's nested ancestor fields
\* and every other collection through its direct ancestor fields.
C23_FullSweep ==
    \A w \in Workers :
        (Done(w) /\ task.ty \in TaskTypes) =>
            /\ Count(run[w].steps, "list") = 1
            /\ Count(run[w].steps, "sweep") = Len(CollectionNames)
            /\ \A k \in 1..Len(CollectionNames) :
                  \A d \in store[CollectionNames[k]] :
                      ~Matches(PredicateFields(CollectionNames[k], d), TaskQuery(task))

\* The user is owned by the Organization Unit v: its Owner is at the
\* OrganizationUnit level and carries the unit's cid, its oid when present,
\* and the unit id (Owner::organization_unit reads the unit id from iid).
OwnedByUnit(u, v) ==
    /\ u.owner.ty = "OrganizationUnit"
    /\ u.owner.entityId.cid = v.cid
    /\ u.owner.entityId.oid = v.oid
    /\ u.owner.entityId.iid = v.uid

OwnedByDeletedUnit(u, t) == \E k \in 1..Len(t.ids) : OwnedByUnit(u, t.ids[k])

\* C24: after a completed OrganizationUnits run, for Customer-rooted and
\* Organization-rooted units alike, no user owned by a deleted unit remains
\* and the users owned by other units, organizations or institutions are
\* untouched.
C24_UnitUsersRemoved ==
    \A w \in Workers :
        (Done(w) /\ task.ty = "OrganizationUnits") =>
            /\ \A u \in store.users : ~OwnedByDeletedUnit(u, task)
            /\ {u \in run[w].start.users : ~OwnedByDeletedUnit(u, task)}
                    \subseteq store.users

\* The event namespace and the collection of the level of a task type.
LevelEvent(ty) ==
    CASE ty = "Customers" -> [ns |-> "Customer", collection |-> "customers"]
      [] ty = "Organizations" -> [ns |-> "Organization", collection |-> "organizations"]
      [] ty = "Institutions" -> [ns |-> "Institution", collection |-> "institutions"]
      [] OTHER -> [ns |-> "OrganizationUnit", collection |-> "organization_units"]

\* C25: a run of a Customers, Organizations, Institutions or OrganizationUnits
\* task that has performed the event step with a producer configured has
\* published one deletion event, in the namespace and collection of the
\* level of the task, whose ids are exactly the node ids named by the task.
C25_EventPayload ==
    \A w \in Workers :
        (Count(run[w].steps, "event") = 1 /\ producer /\ task.ty \in TaskTypes) =>
            /\ Len(run[w].events) = 1
            /\ run[w].events[1].ns = LevelEvent(task.ty).ns
            /\ run[w].events[1].collection = LevelEvent(task.ty).collection
            /\ Range(run[w].events[1].ids) = Range(task.ids)

\* Every step named in `first` comes before every step named in `then`.
AllBefore(steps, first, then) ==
    \A i, j \in 1..Len(steps) :
        (steps[i] \in first /\ steps[j] \in then) => i < j

ReloadSteps == {"reload_users", "reload_customers"}

\* C26: in every run both cache reloads start only after the last document
\* deletion and the role revocation of the run, and before its deletion event
\* and its acknowledgement.
C26_ReloadAfterFinalState ==
    \A w \in Workers :
        /\ AllBefore(run[w].steps, {"pull", "sweep", "roles"}, ReloadSteps)
        /\ AllBefore(run[w].steps, ReloadSteps, {"event", "complete"})
        /\ Done(w) /\ task.ty \in TaskTypes =>
              /\ run[w].userReloads = 1 /\ run[w].customerReloads = 1
              /\ Count(run[w].steps, "roles") = 1
              /\ Count(run[w].steps, "sweep") >= 1

C26_Witness ==
    \E w \in Workers :
        /\ Done(w)
        /\ task.ty = "OrganizationUnits"
        /\ run[w].userReloads = 1 /\ run[w].customerReloads = 1
        /\ Count(run[w].steps, "event") = 1

\* The stores after the task a and then the task b have run, one after the
\* other, from the populated store.
StoreAfter(a, b) == RunStore(b, RunStore(a, WorldStore))

RolesAfter(a, b) ==
    (WorldRoles \ RunRoles(a, WorldStore)) \ RunRoles(b, RunStore(a, WorldStore))

\* C27: when two tasks for unrelated subtrees have run concurrently to
\* completion, their store operations interleaved in any way, the document
\* store and the access-control store are what the two tasks produce when run
\* one after the other, in either order.
C27_IndependentCommute ==
    (other # NoTask /\ \A w \in Workers : Done(w)) =>
        /\ store = StoreAfter(task, other)
        /\ store = StoreAfter(other, task)
        /\ kcRoles = RolesAfter(task, other)
        /\ kcRoles = RolesAfter(other, task)

\* C27 witness: both runs completed, each deleted documents, and the second
\* run started while the first was in the middle of its deletions.
C27_Witness ==
    /\ other # NoTask /\ \A w \in Workers : Done(w)
    /\ task.ty = "Customers" /\ other.ty = "Organizations"
    /\ run["w2"].start # WorldStore
    /\ run["w2"].start # RunStore(task, WorldStore)
    /\ store # RunStore(task, WorldStore)

\* The ancestor tuple of the id fields f equals the tuple of a node the task
\* names: (cid, oid) for Organizations, (cid, oid, iid) for Institutions.
InNamed(f, t) ==
    \E k \in 1..Len(t.ids) :
        /\ f.cid = t.ids[k].cid /\ f.oid = t.ids[k].oid
        /\ t.ty = "Institutions" => f.iid = t.ids[k].iid

\* The role belongs to a node the task names or to a descendant of one.
RoleInNamed(r, t) ==
    \E k \in 1..Len(t.ids) :
        IF t.ty = "Institutions"
        THEN r = Access("institution", <<t.ids[k].cid, t.ids[k].oid, t.ids[k].iid>>)
        ELSE /\ Len(r.chain) >= 2
             /\ r.chain[1] = t.ids[k].cid /\ r.chain[2] = t.ids[k].oid
             /\ r.level = "organization_unit" => Len(r.chain) = 3

\* C28: during and after a run of Organizations(ids) or Institutions(ids),
\* also one naming several nodes, a document is deleted and a role is revoked
\* only if its ancestor tuple is the tuple of one of the named nodes.
C28_InsideNamedSubtrees ==
    task.ty \in {"Organizations", "Institutions"} =>
        /\ \A n \in {"customers", "organizations", "institutions"} :
              {d \in WorldStore[n] : ~InNamed(d, task)} \subseteq store[n]
        /\ {u \in WorldStore.users : ~InNamed(u.owner.entityId, task)}
              \subseteq store.users
        /\ \A d \in WorldStore.organization_units :
              ~InNamed(d, task) =>
                  \E e \in store.organization_units :
                      e.id = d.id /\ e.cid = d.cid /\ e.oid = d.oid
        /\ \A r \in WorldRoles \ kcRoles : RoleInNamed(r, task)

\* The Owner under projection was built from a strict institution id.
FromStrict == call.op = "project" /\ "strict" \in DOMAIN call

\* C29: an Owner::Institution built from a StrictInstitutionId (cid, oid, iid)
\* through the EntityId conversion projects through institution() to the
\* InstitutionId {cid, oid, id: iid}, and a user with that Owner is matched,
\* and so removed, by the Institutions cleanup predicate for that strict id.
C29_StrictOwnerAgree ==
    (FromStrict /\ ret.tag = "ok") =>
        /\ ret.v = Some([cid |-> call.strict.cid, oid |-> call.strict.oid,
                         id |-> call.strict.iid])
        /\ remove_users({[owner |-> call.owner]},
                        TaskQuery([ty |-> "Institutions", ids |-> <<call.strict>>])) = {}

\* refresh() call r has returned, with Ok or with Err.
Ended(r) == refresher.gen > r \/ refresher.pc \in {"tick", "exit"}

\* Tokens are numbered from 1 and every refresh installs the next one:
\* refresh r replaces token r with token r + 1.
Replaced(r) == r

Installed(r) == r + 1

\* C30: a get() call that starts while a refresh is in flight (its receiver
\* registered, the call not returned) does not return before that refresh has
\* ended, and when the refresh succeeded it returns the access token the
\* refresh installed (or that of a later refresh), never the replaced one.
C30_FreshToken ==
    \A g \in Getters :
        (getter[g].pc = "returned" /\ getter[g].during # 0) =>
            /\ Ended(getter[g].during)
            /\ channel[getter[g].during] = "sent" =>
                 /\ getter[g].result >= Installed(getter[g].during)
                 /\ getter[g].result # Replaced(getter[g].during)

\* A get() that started during a successful refresh, found the receiver
\* already taken by another caller, and has returned.
C30_Witness ==
    \E g \in Getters :
        /\ getter[g].pc = "returned"
        /\ getter[g].during # 0
        /\ getter[g].fut = None
        /\ channel[getter[g].during] = "sent"

\* The caller is inside get().
InGet(g) == getter[g].pc \in {"take", "await", "read", "reading"}

SessionUnchanged == token = Replaced(refresher.gen)

\* C32: refresh() replaces the stored session only on success; when the
\* refresh request fails with HTTP 400 it falls back to acquiring a session
\* with the stored credentials, and for any other failure, or a failed
\* fallback, it returns the error and leaves the stored session unchanged.
C32_ReplaceOnlyOnSuccess ==
    refresher.gen > 0 =>
        /\ ~SessionUnchanged =>
             /\ refresher.pc \in {"send", "tick"}
             /\ refresher.grant \in {"refresh_token", "password"}
             /\ token = refresher.next_token
        /\ refresher.pc = "acquire" => refresher.status = "expired"
        /\ refresher.grant = "password" => refresher.status = "expired"
        /\ refresher.grant = "refresh_token" => refresher.status = "ok"
        /\ refresher.status = "expired" =>
             \/ refresher.pc = "acquire"
             \/ refresher.grant = "password"
             \/ refresher.pc = "exit"
        /\ refresher.status = "error" => refresher.pc = "exit"
        /\ refresher.pc = "exit" =>
             /\ SessionUnchanged
             /\ refresher.grant = "none"
             /\ channel[refresher.gen] = "closed"

\* C32 witness: the second refresh got HTTP 400 and its fallback failed; the
\* session stored by the first refresh is still in place.
C32_Witness ==
    /\ refresher.gen = 2
    /\ refresher.pc = "exit"
    /\ refresher.status = "expired"
    /\ token = Installed(1)

\* The call handed over a name, or on create a ty, above the limit.
TooLong(m) ==
    \/ m.name > NAME_MAX_LEN
    \/ m.op = "create" /\ m.ty # Absent /\ m.ty[1] > TY_MAX_LEN

\* C33: every create_* and update_* of customers, organizations, institutions
\* and organization units rejects a name longer than 1024 bytes (and on create
\* a ty longer than 16 bytes) with an error before it issues any statement,
\* and leaves the relational store unchanged.
C33_LengthChecked ==
    (mutation.pc = "returned" /\ TooLong(mutation)) =>
        /\ mutation.result.tag = "err"
        /\ mutation.issued = 0
        /\ db = mutation.before

\* The call in progress is create_organization_unit and it has returned.
UnitCreated ==
    /\ mutation.pc = "returned"
    /\ mutation.op = "create"
    /\ mutation.level = "organization_unit"

MembersOf(unit) ==
    {r \in db["organization_unit_members"] : r.organization_unit_id = unit}

\* C34: create_organization_unit is all-or-nothing: when inserting the
\* membership rows fails, no organization_units row of the call remains in the
\* store; when the call succeeds the stored membership rows of the new unit
\* are exactly the members passed in.
C34_AllOrNothing ==
    UnitCreated =>
        /\ mutation.result.tag = "err" =>
             db["organization_units"] = mutation.before["organization_units"]
        /\ mutation.result.tag = "ok" =>
             MembersOf(mutation.rec) =
                {Member(mutation.rec, mutation.members[i]) :
                    i \in DOMAIN mutation.members}

\* The entries of `handed` that input error i was part of.
HandedTo(i) == {k \in DOMAIN dispatch.handed : i \in Range(dispatch.handed[k].batch)}

Unmatched(id) == \A u \in Updaters : ~starts_with(id, u)

\* The first updater, in calling order, whose prefix the id starts with.
FirstMatch(id) ==
    UpdaterOrder[CHOOSE k \in DOMAIN UpdaterOrder :
                    /\ starts_with(id, UpdaterOrder[k])
                    /\ \A j \in 1..(k - 1) : ~starts_with(id, UpdaterOrder[j])]

NoUpdaterFailed == \A k \in DOMAIN dispatch.handed : dispatch.handed[k].ok

\* Every input error went to at most one updater, the first whose prefix
\* matches; Ok only when every id matched and every updater succeeded; a
\* failed updater is the last one that ran.
DispatchRules ==
    /\ \A i \in DOMAIN dispatch.errors :
        /\ Cardinality(HandedTo(i)) <= 1
        /\ \A k \in HandedTo(i) :
             dispatch.handed[k].updater = FirstMatch(dispatch.errors[i])
    /\ dispatch.result.tag = "ok" =>
        /\ \A i \in DOMAIN dispatch.errors : ~Unmatched(dispatch.errors[i])
        /\ Len(dispatch.handed) = Len(UpdaterOrder)
        /\ NoUpdaterFailed
    /\ \A k \in DOMAIN dispatch.handed :
        /\ dispatch.handed[k].updater = UpdaterOrder[k]
        /\ ~dispatch.handed[k].ok => k = Len(dispatch.handed)

\* C35 as stated: each input error is handed to at most one updater, the first
\* whose prefix matches in the order realm, client, authentication flows,
\* browser flow; Ok only if every id matched a prefix and every updater
\* succeeded; the error 'Could not resolve all errors' whenever some id
\* matches none of them; an updater failure stops the sequence.
C35_Dispatch ==
    dispatch.pc = "returned" =>
        /\ DispatchRules
        /\ (\E i \in DOMAIN dispatch.errors : Unmatched(dispatch.errors[i])) =>
             IsErr(dispatch.result, "Could not resolve all errors")

\* C35 amended: as C35, with the error 'Could not resolve all errors' returned
\* when some id matches none of the prefixes and no updater failed; when an
\* updater failed, the call returns that updater's error.
C35_DispatchUnlessFailed ==
    dispatch.pc = "returned" =>
        /\ DispatchRules
        /\ ((\E i \in DOMAIN dispatch.errors : Unmatched(dispatch.errors[i]))
              /\ NoUpdaterFailed) =>
             IsErr(dispatch.result, "Could not resolve all errors")
        /\ ~NoUpdaterFailed => IsErr(dispatch.result, "updater failed")

\* C35 witness: one error was handed to its updater, which succeeded, another
\* matched no prefix, and the call returned 'Could not resolve all errors'.
C35_Witness ==
    /\ dispatch.pc = "returned"
    /\ IsErr(dispatch.result, "Could not resolve all errors")
    /\ \E i, j \in DOMAIN dispatch.errors :
        /\ HandedTo(i) # {}
        /\ Unmatched(dispatch.errors[j])

====
